---------------------------- MODULE Spec2Model ----------------------------
(***************************************************************************)
(* StrongBot: the epoch watcher (check_epoch / post_update in              *)
(* discord_bot.py), its source clients, the expense form (ExpenseModal)    *)
(* and the dual-write expense logger (ExpenseHandler in                    *)
(* expense_handler.py).                                                    *)
(*                                                                         *)
(* Python's None is modelled as the empty tuple and a present value x as   *)
(* the one-element tuple <<x>>, so that "x is None" is a comparison of     *)
(* values of one kind.                                                     *)
(***************************************************************************)
EXTENDS Integers, Sequences, FiniteSets, TLC

(***************************************************************************)
(* Bounds of the model.                                                    *)
(***************************************************************************)
\* epoch values the RPC may answer: MinEpoch..MaxEpoch
MinEpoch == 9
MaxEpoch == 12
\* number of watcher ticks (epoch reads) explored
MaxReads == 6

\* number of log_expense calls explored
MaxCalls == 2

\* number of expense submissions, and so of log_expense calls, that can be
\* in flight at the same time; each runs in a slot of its own
MaxOverlap == 2
Slots == 1..MaxOverlap

\* number of data rows of the wallet feed's CSV body
MaxRows == 2

\* in the runs where the watcher, the ledger and the "!test" command
\* interleave: the number of ticks and the number of submissions
MaxTicks == 2
MaxSubmits == 1

\* the volume texts generated from VolumeChars have at most MaxVolumeLen
\* characters
MaxVolumeLen == 3

None == << >>
Some(x) == << x >>

\* The ranges of epoch numbers the RPC answers in during one run: a window
\* around the chain's height when the bot starts.
EpochWindows == { MinEpoch..MaxEpoch, 100..101 }
AllEpochs == UNION EpochWindows

VARIABLES
    current_epoch,  \* discord_bot.py:41  global, None until the first good read
    w_pc,           \* position of the check_epoch task inside one tick: "idle",
                    \* the await its post_update call is suspended at, or
                    \* "posted" when that call has returned
    new_epoch,      \* check_epoch's local new_epoch while the tick is suspended
    post_result,    \* what the watcher's last post_update call did
    reads,          \* history: every value get_current_epoch returned to a tick
    published,      \* history: the epochs for which a tick's post_update call
                    \* has returned
    post_epoch,     \* from the moment a tick's post_update call hands its embed
                    \* to channel.send until the tick ends: the "Current Epoch"
                    \* of that embed (Some(None): the field was left out); None
                    \* otherwise
    epoch_window,   \* environment: the epochs the RPC can answer in this run
    service,        \* ExpenseHandler.service: "none" until initialize() built it
    sheet_headers,  \* the durable store's row 1 (A1 onwards)
    sheet_rows,     \* the durable store's appended rows
    outgoings,      \* the embeds sent to the outgoings channel
    l_pc,           \* per slot, position of its log_expense call: the await it
                    \* is suspended at ("build", "header_get", "header_update",
                    \* "append", "send"), or the code it is about to run
                    \* ("sheets", "row", "discord", "return"); "idle" without one
    served,         \* per slot: the far end has carried out the request the
                    \* call is suspended at
    row1,           \* per slot, the row 1 its read of A1:H1 was answered with
    call_no,        \* per slot, the number of its running or last call (0: none)
    user_data,      \* per slot, log_expense's argument
    sheets_result,  \* per slot, log_expense's local sheets_result
    discord_result, \* per slot, log_expense's local discord_result
    result,         \* per slot, what its last log_expense call returned
    calls,          \* number of log_expense calls started
    appended,       \* history: the calls whose row the store took
    header_reads,   \* history: the number of reads of row 1 (A1:H1) issued
    header_calls,   \* history: the setup_headers_if_needed calls in order: the
                    \* value each returned (ok) and whether it wrote row 1 (wrote)
    detached,       \* the update and append requests that are with a worker
                    \* thread while no coroutine awaits them any more
    s_pc,           \* per slot, position of its ExpenseModal.on_submit: the
                    \* await it is suspended at; "none" without one
    session,        \* per slot, the references the modal of that on_submit holds
    submit_reply,   \* per slot, the last followup message of that on_submit
                    \* that was delivered; "none" while there is none
    cleanup,        \* per slot, the clean-up requests of that on_submit that
                    \* have returned or raised, in order
    manual_inp,     \* what the outside world answers to the "!test" command's call
    manual_result,  \* what the "!test" command did
    manual_embed,   \* the embed its post_update call handed to channel.send
    src_call,       \* a source client call: which source, and what the far end does
    src_result,     \* what that call gave its caller
    c_pc,           \* position of a post_update call inside its collection
    started,        \* history: the source calls that call has started
    finished,       \* history: the source calls that have returned to it
    vol_call,       \* a use of the volume code: which function, and its argument
    volume_val,     \* what post_update parsed from the scraped volume
    volume_field,   \* what format_volume gave
    alive           \* FALSE once the process was shut down

watcherVars ==
    << current_epoch, w_pc, new_epoch, post_result, reads, published, post_epoch,
       epoch_window >>
ledgerVars ==
    << service, sheet_headers, sheet_rows, outgoings, l_pc, user_data,
       sheets_result, discord_result, result, calls, appended, header_reads,
       header_calls, served, call_no, row1, detached >>
submitVars == << s_pc, session, submit_reply, cleanup >>
manualVars == << manual_inp, manual_result, manual_embed >>
sourceVars == << src_call, src_result >>
collectVars == << c_pc, started, finished >>
volumeVars == << vol_call, volume_val, volume_field >>
vars ==
    << watcherVars, ledgerVars, manualVars, sourceVars, collectVars, submitVars, volumeVars, alive >>

\* what a step of a log_expense call leaves alone
besideLedger ==
    << watcherVars, manualVars, sourceVars, collectVars, submitVars, volumeVars, alive >>

(***************************************************************************)
(* get_current_epoch: the epoch of the RPC answer, or None when the call   *)
(* raised or the answer had no value.epoch.                                *)
(***************************************************************************)
get_current_epoch == { None } \cup { Some(e) : e \in epoch_window }

\* the same, over every window
EpochReads == { None } \cup { Some(e) : e \in AllEpochs }

(***************************************************************************)
(* The source clients.  Each takes what the far end does during the call   *)
(* and gives what the caller receives.                                     *)
(***************************************************************************)
\* the ways a request fails before there is a body to read
TransportFailures == { "unreachable", "timeout", "http_error", "auth_error" }

\* str(e) of the exception aiohttp raises; asyncio.TimeoutError has no text
ErrorText(kind) ==
    IF kind = "unreachable" THEN "Cannot connect to host"
    ELSE IF kind = "timeout" THEN ""
    ELSE IF kind = "http_error" THEN "500, message='Internal Server Error'"
    ELSE IF kind = "auth_error" THEN "401, message='Unauthorized'"
    ELSE IF kind = "csv_error" THEN "line contains NUL"
    ELSE ""

\* the data rows of the wallet feed: an address and a balance cell that
\* float() accepts (Some(b)) or refuses (None), or an address alone
WalletRows ==
    [ address : { "Cx46", "91oP" }, cols : { 2 }, balance : { None, Some(0), Some(5) } ]
    \cup [ address : { "Cx46", "91oP" }, cols : { 1 }, balance : { None } ]

RECURSIVE SeqsUpTo(_, _)
SeqsUpTo(S, n) ==
    IF n = 0 THEN { << >> }
    ELSE SeqsUpTo(S, n - 1)
         \cup { Append(q, x) : q \in { r \in SeqsUpTo(S, n - 1) : Len(r) = n - 1 }, x \in S }

\* what the feed does: a transport failure, a body the csv module refuses,
\* an empty body (no header row), or a header row and data rows
WalletFeeds ==
    { [kind |-> k, rows |-> << >>] :
        k \in TransportFailures \cup { "csv_error", "no_header" } }
    \cup { [kind |-> "ok", rows |-> r] : r \in SeqsUpTo(WalletRows, MaxRows) }

\* discord_bot.py:302-309: the rows that are kept
parsed_row(row) == row.cols >= 2 /\ row.balance # None

RECURSIVE wallet_balances(_)
wallet_balances(rows) ==
    IF rows = << >> THEN << >>
    ELSE IF parsed_row(Head(rows))
         THEN << [address |-> Head(rows).address, balance |-> Head(rows).balance[1]] >>
              \o wallet_balances(Tail(rows))
         ELSE wallet_balances(Tail(rows))

\* mutant: the total is the balance of the last row kept
wallet_total_last(balances) ==
    IF balances = << >> THEN 0 ELSE balances[Len(balances)].balance

\* discord_bot.py:293,307: total_sol, 0.0 plus every balance kept
RECURSIVE wallet_total(_)
wallet_total(balances) ==
    IF balances = << >> THEN 0
    ELSE Head(balances).balance + wallet_total(Tail(balances))

\* discord_bot.py:290-319; error is None when the dict has no "error" key
get_wallet_balances(feed) ==
    IF feed.kind = "ok"
    THEN [ individual_balances |-> wallet_balances(feed.rows),
           total_balance |-> wallet_total(wallet_balances(feed.rows)),
           error |-> None ]
    ELSE [ individual_balances |-> << >>, total_balance |-> 0,
           error |-> Some(ErrorText(feed.kind)) ]

\* discord_bot.py:479-488: how post_update reads the dict
wallet_kind(wallet_data) ==
    IF wallet_data.individual_balances # << >> THEN "balances"
    ELSE IF wallet_data.error # None /\ wallet_data.error[1] # "" THEN "error"
    ELSE "empty"

\* discord_bot.py:301-310: the line printed for a row, None when the row
\* prints nothing; only a balance that float() refuses is reported
row_printed(row) ==
    IF row.cols >= 2 /\ row.balance = None
    THEN Some([ message |-> "Could not parse balance for wallet", address |-> row.address ])
    ELSE None

RECURSIVE rows_printed(_)
rows_printed(rows) ==
    IF rows = << >> THEN << >>
    ELSE IF row_printed(Head(rows)) # None
         THEN << row_printed(Head(rows))[1] >> \o rows_printed(Tail(rows))
         ELSE rows_printed(Tail(rows))

\* discord_bot.py:290-319: what get_wallet_balances prints during the call.
\* A timeout (asyncio.TimeoutError) and an empty body (StopIteration from
\* next(reader)) are caught by the last handler.
wallet_printed(feed) ==
    IF feed.kind = "ok" THEN rows_printed(feed.rows)
    ELSE IF feed.kind \in { "unreachable", "http_error", "auth_error" }
         THEN << [ message |-> "Error fetching wallet balances", address |-> "" ] >>
    ELSE IF feed.kind = "csv_error"
         THEN << [ message |-> "Error parsing CSV data", address |-> "" ] >>
    ELSE << [ message |-> "Unexpected error in get_wallet_balances", address |-> "" ] >>

\* discord_bot.py:321-374: the last line get_sanctum_apy prints.
\* response.json() raises aiohttp.ContentTypeError, a ClientError, for a body
\* whose content type is not JSON, and json.JSONDecodeError for a body sent
\* as JSON that is not; a body of another shape raises where it is read
\* (lines 355-363); a timeout is not a ClientError.
sanctum_printed(answer) ==
    IF answer.kind = "no_key"
    THEN << "Error: SANCTUM_API_KEY not found in environment variables" >>
    ELSE IF answer.kind = "invalid_key" THEN << "Error: Invalid Sanctum API key" >>
    ELSE IF answer.kind = "bad_request" THEN << "Sanctum API error" >>
    ELSE IF answer.kind \in { "unreachable", "http_error", "auth_error", "bad_mimetype" }
         THEN << "Error fetching Sanctum APY - HTTP error" >>
    ELSE IF answer.kind \in { "timeout", "bad_json", "bad_shape" }
         THEN << "Error fetching Sanctum APY - Unexpected error" >>
    ELSE IF answer.kind = "apy" THEN << "Successfully fetched Sanctum APY" >>
    ELSE << "No APY data found in Sanctum API response" >>

\* solana_helper.py:83: the epoch the helper answers when the read failed
MockEpoch == 654

\* what the RPC node does during getEpochInfo: a transport failure, a body
\* that is not JSON, a JSON-RPC error (no result), a result object without
\* an epoch, or a result with an epoch
EpochAnswers ==
    { [kind |-> k, epoch |-> None] :
        k \in TransportFailures \cup { "bad_json", "rpc_error", "no_epoch" } }
    \cup { [kind |-> "ok", epoch |-> Some(e)] : e \in AllEpochs \cup { 0, MockEpoch } }

\* discord_bot.py:276-288: response.value.epoch, or None
discord_bot_get_current_epoch(answer) ==
    IF answer.kind = "ok" THEN answer.epoch ELSE None

\* discord_bot.py:280-288: the response is printed, or the exception is
discord_bot_epoch_printed(answer) ==
    IF answer.kind \in TransportFailures \cup { "bad_json" }
    THEN << "Error getting epoch info" >>
    ELSE << "Epoch Response:" >>

\* solana_helper.py:23-48: result['result'].get('epoch'), or None
SolanaRPC_get_current_epoch(answer) ==
    IF answer.kind = "ok" THEN answer.epoch ELSE None

\* solana_helper.py:39-48: a status other than 200, a body without a result
\* and a result object without an epoch print nothing; an exception is
\* printed: of the request, of response.json(), or of .get('epoch') on a
\* result that is not an object (null, a number, a text)
SolanaRPC_epoch_printed(answer) ==
    IF answer.kind \in { "unreachable", "timeout", "bad_json", "bad_result" }
    THEN << "Error getting epoch" >>
    ELSE << >>

\* solana_helper.py:80-83
solana_helper_get_current_epoch(answer) ==
    LET epoch == SolanaRPC_get_current_epoch(answer)
    IN  IF epoch # None THEN epoch ELSE Some(MockEpoch)

(***************************************************************************)
(* The 24h-volume field: the parsing of the scraped value in post_update   *)
(* and format_volume.  A Python value is a record tagged with its type.  A *)
(* float is the binary number the interpreter holds: a sign, mant_dig      *)
(* binary digits (the first of them 1, unless the number is 0) and the     *)
(* exponent of the last digit, so that its value is digits * 2^exp.  Every *)
(* operation rounds its exact result to the nearest such number, a tie     *)
(* going to the even one (3.1 * 1000 is 3100.0000000000005, and 1.15 is    *)
(* held as 1.149999999999999911...).  Infinities, NaN, subnormal numbers   *)
(* and -0.0 are not among the values modelled.  Texts are read character   *)
(* by character.                                                           *)
(***************************************************************************)
PyNone == [ type |-> "NoneType" ]
PyStr(text) == [ type |-> "str", s |-> text ]
PyList == [ type |-> "list" ]

\* sys.float_info.mant_dig
mant_dig == 53

RECURSIVE Pow10(_)
Pow10(k) == IF k = 0 THEN 1 ELSE 10 * Pow10(k - 1)

Zeros(n) == [ i \in 1..n |-> 0 ] \o << >>

Smaller(a, b) == IF a < b THEN a ELSE b

\* Binary digits are worked on ten at a time (2^10 is 1024).
\* the natural number that at most ten binary digits stand for
RECURSIVE chunk_value(_)
chunk_value(digits) ==
    IF digits = << >> THEN 0
    ELSE 2 * chunk_value(SubSeq(digits, 1, Len(digits) - 1)) + digits[Len(digits)]

\* a natural number below 2^width in width binary digits
RECURSIVE chunk_digits(_, _)
chunk_digits(n, width) ==
    IF width = 0 THEN << >> ELSE Append(chunk_digits(n \div 2, width - 1), n % 2)

\* digits without the zeros in front
significant(digits) ==
    LET ones == { i \in 1..Len(digits) : digits[i] = 1 }
    IN  IF ones = { } THEN << >>
        ELSE SubSeq(digits, CHOOSE i \in ones : \A j \in ones : i <= j, Len(digits))

\* the binary digits of a natural number, none for 0
RECURSIVE bits_of(_)
bits_of(n) ==
    IF n < 1024 THEN significant(chunk_digits(n, 10))
    ELSE bits_of(n \div 1024) \o chunk_digits(n % 1024, 10)

\* the natural number a run of at most 31 binary digits stands for
RECURSIVE value_of(_)
value_of(digits) ==
    IF Len(digits) <= 10 THEN chunk_value(digits)
    ELSE 1024 * value_of(SubSeq(digits, 1, Len(digits) - 10))
         + chunk_value(SubSeq(digits, Len(digits) - 10 + 1, Len(digits)))

\* digits * k + carry for a natural k of at most 2^20: the last Len(digits)
\* digits of the result, and what is carried out of them
RECURSIVE mul_bits(_, _, _)
mul_bits(digits, k, carry) ==
    IF digits = << >> THEN [ carry |-> carry, digits |-> << >> ]
    ELSE LET width == Smaller(Len(digits), 10)
             last == SubSeq(digits, Len(digits) - width + 1, Len(digits))
             t == chunk_value(last) * k + carry
             unit == chunk_value(<< 1 >> \o Zeros(width))
             front == mul_bits(SubSeq(digits, 1, Len(digits) - width), k, t \div unit)
         IN  [ carry |-> front.carry,
               digits |-> front.digits \o chunk_digits(t % unit, width) ]

\* digits + 1; one digit longer when every digit is 1
plus_one(digits) ==
    LET sum == mul_bits(digits, 1, 1)
    IN  IF sum.carry = 1 THEN << 1 >> \o sum.digits ELSE sum.digits

\* long division by a natural k of at most 2^20, r being the remainder
\* brought in: the digits of the quotient, as many as there are digits, and
\* the remainder
RECURSIVE div_bits(_, _, _)
div_bits(digits, k, r) ==
    IF digits = << >> THEN [ digits |-> << >>, rem |-> r ]
    ELSE LET width == Smaller(Len(digits), 10)
             unit == chunk_value(<< 1 >> \o Zeros(width))
             t == r * unit + chunk_value(SubSeq(digits, 1, width))
             back == div_bits(SubSeq(digits, width + 1, Len(digits)), k, t % k)
         IN  [ digits |-> chunk_digits(t \div k, width) \o back.digits, rem |-> back.rem ]

\* the float nearest to digits * 2^exp (the first digit is 1 and there are
\* at least mant_dig of them); sticky: something not zero lies beyond the
\* digits.  A tie goes to the even neighbour.
nearest(neg, digits, exp, sticky) ==
    LET kept == SubSeq(digits, 1, mant_dig)
        beyond == SubSeq(digits, mant_dig + 1, Len(digits))
        half == beyond # << >> /\ beyond[1] = 1
        more == sticky \/ \E i \in 2..Len(beyond) : beyond[i] = 1
        up == half /\ (more \/ kept[mant_dig] = 1)
        raised == plus_one(kept)
    IN  IF ~ up
        THEN [ type |-> "float", neg |-> neg, digits |-> kept, exp |-> exp + Len(beyond) ]
        ELSE IF Len(raised) > mant_dig
        THEN [ type |-> "float", neg |-> neg, digits |-> SubSeq(raised, 1, mant_dig),
               exp |-> exp + Len(beyond) + 1 ]
        ELSE [ type |-> "float", neg |-> neg, digits |-> raised, exp |-> exp + Len(beyond) ]

is_zero(x) == x.digits[1] = 0

\* x * m for a float x and a natural m (volume_val's * 1_000, the APY's * 100)
times(x, m) ==
    IF is_zero(x) THEN x
    ELSE LET product == mul_bits(x.digits, m, 0)
         IN  nearest(x.neg, bits_of(product.carry) \o product.digits, x.exp, FALSE)

\* x / m for a float x and a natural m (format_volume's value/1_000)
divided(x, m) ==
    IF is_zero(x) THEN x
    ELSE LET whole == div_bits(x.digits, m, 0)
             front == significant(whole.digits)
             more == div_bits(Zeros(mant_dig + 1 - Len(front)), m, whole.rem)
         IN  nearest(x.neg, front \o more.digits, x.exp - Len(more.digits), more.rem # 0)

\* the float of the literal or text n/d, for an integer n and a natural d of
\* at most 2^20: the float nearest to the quotient
PyFloat(n, d) ==
    LET magnitude == IF n < 0 THEN 0 - n ELSE n
        digits == bits_of(magnitude)
        whole == [ type |-> "float", neg |-> n < 0,
                   digits |-> digits \o Zeros(mant_dig - Len(digits)),
                   exp |-> IF n = 0 THEN 0 ELSE Len(digits) - mant_dig ]
    IN  divided(whole, d)

\* the sign of |x| * b - a, for a float x, a natural b and an integer a
compare(x, a, b) ==
    LET product == mul_bits(x.digits, b, 0)
        digits == bits_of(product.carry) \o product.digits
        whole_len == Len(digits) + x.exp
        whole == value_of(SubSeq(digits, 1, IF whole_len < 0 THEN 0 ELSE whole_len))
        frac == SubSeq(digits, (IF whole_len < 0 THEN 0 ELSE whole_len) + 1, Len(digits))
    IN  IF whole_len > 31 /\ ~ is_zero(x) THEN 1
        ELSE IF whole_len > 31 THEN (IF a > 0 THEN 0 - 1 ELSE IF a < 0 THEN 1 ELSE 0)
        ELSE IF whole > a THEN 1
        ELSE IF whole < a THEN 0 - 1
        ELSE IF \E i \in 1..Len(frac) : frac[i] = 1 THEN 1
        ELSE 0

\* x >= m for a natural m greater than 0
at_least(x, m) == ~ x.neg /\ compare(x, m, 1) >= 0

char(text, i) == SubSeq(text, i, i)

\* text.replace(old, '') for a one-character old
RECURSIVE replace(_, _)
replace(text, old) ==
    IF Len(text) = 0 THEN ""
    ELSE (IF char(text, 1) = old THEN "" ELSE char(text, 1))
         \o replace(SubSeq(text, 2, Len(text)), old)

\* str.upper(): every letter from a to z becomes its capital, every other
\* ASCII character stays as it is
RECURSIVE upper(_)
upper(text) ==
    LET ascii_lowercase == "abcdefghijklmnopqrstuvwxyz"
        ascii_uppercase == "ABCDEFGHIJKLMNOPQRSTUVWXYZ"
        places == { i \in 1..Len(ascii_lowercase) : char(ascii_lowercase, i) = char(text, 1) }
    IN  IF Len(text) = 0 THEN ""
        ELSE (IF places = { } THEN char(text, 1)
              ELSE char(ascii_uppercase, CHOOSE i \in places : TRUE))
             \o upper(SubSeq(text, 2, Len(text)))

\* old in text, for a one-character old
contains(text, old) == \E i \in 1..Len(text) : char(text, i) = old

DigitChars == "0123456789"

\* the value of a digit character, -1 for any other character
digit(c) ==
    IF \E v \in 0..9 : char(DigitChars, v + 1) = c
    THEN CHOOSE v \in 0..9 : char(DigitChars, v + 1) = c
    ELSE -1

\* the value of a run of digits (0 for the empty run), -1 when a character
\* is not a digit
RECURSIVE digits_value(_)
digits_value(text) ==
    IF Len(text) = 0 THEN 0
    ELSE LET front == digits_value(SubSeq(text, 1, Len(text) - 1))
             last == digit(char(text, Len(text)))
         IN  IF front < 0 \/ last < 0 THEN -1 ELSE 10 * front + last

\* float(text) for a text of digits, '.', and characters float() refuses:
\* Some(the float nearest to the number written), or None for ValueError.  Signs, blanks, exponents,
\* underscores, "inf" and "nan" are not among the characters modelled.
float(text) ==
    LET dots == { i \in 1..Len(text) : char(text, i) = "." }
        dot == IF dots = { } THEN Len(text) + 1 ELSE CHOOSE i \in dots : TRUE
        whole == SubSeq(text, 1, dot - 1)
        frac == IF dot >= Len(text) THEN "" ELSE SubSeq(text, dot + 1, Len(text))
    IN  IF \/ Cardinality(dots) > 1
           \/ (Len(whole) = 0 /\ Len(frac) = 0)
           \/ digits_value(whole) < 0
           \/ digits_value(frac) < 0
        THEN None
        ELSE Some(PyFloat(digits_value(whole) * Pow10(Len(frac)) + digits_value(frac),
                          Pow10(Len(frac))))

\* discord_bot.py:497-511: volume_val, from the scraped volume_str
volume_val_of(volume_str) ==
    IF volume_str.type \in { "int", "float" } THEN volume_str
    ELSE IF volume_str.type = "str"
    THEN LET volume_str_cleaned == replace(replace(volume_str.s, "$"), ",")
             number ==
                 IF contains(upper(volume_str_cleaned), "K")
                 THEN float(replace(upper(volume_str_cleaned), "K"))
                 ELSE IF contains(upper(volume_str_cleaned), "M")
                 THEN float(replace(upper(volume_str_cleaned), "M"))
                 ELSE float(volume_str_cleaned)
             scale ==
                 IF contains(upper(volume_str_cleaned), "K") THEN 1000
                 ELSE IF contains(upper(volume_str_cleaned), "M") THEN 1000000
                 ELSE 1
         IN  IF number = None THEN PyNone ELSE times(number[1], scale)
    ELSE PyNone

\* str(n) for a natural number
RECURSIVE str_of_nat(_)
str_of_nat(n) ==
    IF n < 10 THEN char(DigitChars, n + 1)
    ELSE str_of_nat(n \div 10) \o char(DigitChars, (n % 10) + 1)

\* n in width digits, zeros in front
RECURSIVE zero_padded(_, _)
zero_padded(n, width) ==
    IF width = 0 THEN ""
    ELSE zero_padded(n \div 10, width - 1) \o char(DigitChars, (n % 10) + 1)

\* str(n) of the natural number the binary digits stand for
RECURSIVE group_thousands_plain(_)
group_thousands_plain(digits) ==
    LET tens == div_bits(digits, 10, 0)
    IN  IF significant(tens.digits) = << >> THEN str_of_nat(tens.rem)
        ELSE group_thousands_plain(significant(tens.digits)) \o str_of_nat(tens.rem)

\* the ',' option of the format specification, for the natural number the
\* binary digits stand for
RECURSIVE group_thousands(_)
group_thousands(digits) ==
    LET thousands == div_bits(digits, 1000, 0)
    IN  IF significant(thousands.digits) = << >> THEN str_of_nat(thousands.rem)
        ELSE group_thousands(significant(thousands.digits)) \o ","
             \o zero_padded(thousands.rem, 3)

\* f"{x:,.<places>f}": the value the float holds, rounded to so many
\* decimals, a tie going to the even neighbour
fixed(x, places) ==
    LET whole_len == mant_dig + x.exp
        whole == IF x.exp >= 0 THEN x.digits \o Zeros(x.exp)
                 ELSE SubSeq(x.digits, 1, IF whole_len < 0 THEN 0 ELSE whole_len)
        frac == IF x.exp >= 0 THEN << >>
                ELSE IF whole_len >= 0 THEN SubSeq(x.digits, whole_len + 1, mant_dig)
                ELSE Zeros(0 - whole_len) \o x.digits
        decimals == mul_bits(frac, Pow10(places), 0)
        half == decimals.digits # << >> /\ decimals.digits[1] = 1
        more == \E i \in 2..Len(decimals.digits) : decimals.digits[i] = 1
        odd == IF places = 0
               THEN whole # << >> /\ whole[Len(whole)] = 1
               ELSE decimals.carry % 2 = 1
        scaled == decimals.carry + (IF half /\ (more \/ odd) THEN 1 ELSE 0)
    IN  (IF x.neg THEN "-" ELSE "")
        \o group_thousands(IF scaled = Pow10(places) THEN plus_one(whole) ELSE whole)
        \o (IF places = 0 THEN "" ELSE "." \o zero_padded(scaled % Pow10(places), places))

\* format_volume without its None test and its except clause
format_volume_unguarded(value) ==
    IF value.type \notin { "int", "float" } THEN [ raised |-> TRUE, text |-> "" ]
    ELSE IF at_least(value, 1000000)
    THEN [ raised |-> FALSE, text |-> "$" \o fixed(divided(value, 1000000), 1) \o "M" ]
    ELSE IF at_least(value, 1000)
    THEN [ raised |-> FALSE, text |-> "$" \o fixed(divided(value, 1000), 1) \o "K" ]
    ELSE [ raised |-> FALSE, text |-> "$" \o fixed(value, 2) ]

\* format_volume comparing with > where the code compares with >=
format_volume_boundaries_below(value) ==
    IF value.type \notin { "int", "float" } THEN [ raised |-> FALSE, text |-> "N/A" ]
    ELSE IF at_least(value, 1000000) /\ value # PyFloat(1000000, 1)
    THEN [ raised |-> FALSE, text |-> "$" \o fixed(divided(value, 1000000), 1) \o "M" ]
    ELSE IF at_least(value, 1000) /\ value # PyFloat(1000, 1)
    THEN [ raised |-> FALSE, text |-> "$" \o fixed(divided(value, 1000), 1) \o "K" ]
    ELSE [ raised |-> FALSE, text |-> "$" \o fixed(value, 2) ]

\* discord_bot.py:43-55: the text returned; the comparison of a value that
\* is not a number raises TypeError, which the except clause turns into
\* "N/A"
format_volume(value) ==
    IF value.type = "NoneType" THEN [ raised |-> FALSE, text |-> "N/A" ]
    ELSE IF value.type \notin { "int", "float" } THEN [ raised |-> FALSE, text |-> "N/A" ]
    ELSE IF at_least(value, 1000000)
    THEN [ raised |-> FALSE, text |-> "$" \o fixed(divided(value, 1000000), 1) \o "M" ]
    ELSE IF at_least(value, 1000)
    THEN [ raised |-> FALSE, text |-> "$" \o fixed(divided(value, 1000), 1) \o "K" ]
    ELSE [ raised |-> FALSE, text |-> "$" \o fixed(value, 2) ]

\* the characters of the generated volume texts
VolumeChars == { "$", ",", ".", "0", "1", "5", "9", "K", "k", "M", "m", "x" }

\* every text of at most n characters of VolumeChars
RECURSIVE TextsUpTo(_)
TextsUpTo(n) ==
    IF n = 0 THEN { "" }
    ELSE TextsUpTo(n - 1)
         \cup { t \o c : t \in { u \in TextsUpTo(n - 1) : Len(u) = n - 1 }, c \in VolumeChars }

\* magnitude texts at the stated precision, written as format_volume writes
\* a number: '$', the whole part with thousands separators, one decimal and
\* K or M, or two decimals and no suffix; whole parts of one to six digits,
\* the ends of every range among them
WellFormedVolumes ==
    LET whole_parts ==
            { "0", "1", "3", "9", "10", "12", "99", "100", "999", "1,000", "1,234",
              "9,999", "10,000", "12,345", "99,999", "100,000", "123,456", "999,999" }
    IN  { "$" \o whole \o "." \o tenths \o suffix :
            whole \in whole_parts,
            tenths \in { "0", "1", "5", "9" },
            suffix \in { "K", "M" } }
        \cup { "$" \o whole \o "." \o cents :
                whole \in whole_parts,
                cents \in { "00", "05", "56", "99" } }

\* the numbers handed to format_volume: 0, -5, 999.99, 999.996, the
\* boundaries 1000 and 1000000 and their neighbours, 999949 and 999951,
\* 1234500000; decimal ties a float holds exactly (0.125, 1250, 1250000)
\* and ties it does not (0.005, 2.675, 1050, 1150, 1150000: 1.15 is held as
\* 1.1499999..., 1.05 as 1.0500000...04)
VolumeNumbers ==
    { PyFloat(0, 1), PyFloat(0 - 5, 1), PyFloat(125, 1000), PyFloat(99999, 100),
      PyFloat(999996, 1000), PyFloat(1000, 1), PyFloat(1001, 1), PyFloat(1250, 1),
      PyFloat(999949, 1), PyFloat(999951, 1), PyFloat(999999, 1), PyFloat(1000000, 1),
      PyFloat(1250000, 1), PyFloat(1234500000, 1),
      PyFloat(5, 1000), PyFloat(2675, 1000), PyFloat(1050, 1), PyFloat(1150, 1),
      PyFloat(1150000, 1) }

\* what the scrape can hold in the volume field
VolumeFields ==
    { PyNone, PyList }
    \cup VolumeNumbers
    \cup { PyStr(text) : text \in TextsUpTo(MaxVolumeLen) }
    \cup { PyStr(text) : text \in WellFormedVolumes }
    \cup { PyStr("$3.1K"), PyStr("$1.2M"), PyStr("1.9k"), PyStr("$1,234.56"),
           PyStr("$3.1xK"), PyStr("abc"), PyStr("1.15K"), PyStr("1.05K"),
           PyStr("2.675"), PyStr("3.15K"), PyStr("0.005") }

\* one use of the volume code: the parsing and formatting post_update does
\* on a scraped value, or a call of format_volume with a value
VolumeCalls ==
    { [fn |-> "post_update", arg |-> value] : value \in VolumeFields }
    \cup { [fn |-> "format_volume", arg |-> value] :
             value \in { PyNone, PyList, PyStr(""), PyStr("abc"), PyStr("$3.1K") }
                       \cup VolumeNumbers }

\* latestApy as a decimal fraction: 82/1000 is 0.082
ApyDecimals ==
    { [num |-> 0, den |-> 100], [num |-> 8, den |-> 100], [num |-> 82, den |-> 1000],
      [num |-> 5, den |-> 1000] }

\* what the Sanctum API does: no key configured, a transport failure, a 400
\* (invalid key or other), a 200 whose body has another content type than
\* JSON (bad_mimetype), is sent as JSON and is not (bad_json) or is JSON of
\* another shape than an object with a list of objects (bad_shape), a 200
\* without data or with a null latestApy, or a 200 with a latestApy
ApyAnswers ==
    { [kind |-> k, latestApy |-> None] :
        k \in TransportFailures
              \cup { "no_key", "invalid_key", "bad_request", "bad_mimetype", "bad_json",
                     "bad_shape", "no_data", "no_apy" } }
    \cup { [kind |-> "apy", latestApy |-> Some(d)] : d \in ApyDecimals }

\* discord_bot.py:321-374: the percentage (line 362: apy_decimal * 100, a
\* float), or None
get_sanctum_apy(answer) ==
    IF answer.kind = "apy"
    THEN Some(times(PyFloat(answer.latestApy[1].num, answer.latestApy[1].den), 100))
    ELSE None

(***************************************************************************)
(* post_update: the collect-and-publish pipeline.                          *)
(*                                                                         *)
(* Its inputs are what the outside world answers during one call:          *)
(*   channel    bot.get_channel(CHANNEL_ID): "ok" or "none"                *)
(*   firecrawl  app.extract: it raises, or answers an error, an object     *)
(*              without success/error, a success without data, or a        *)
(*              success with data (per field: absent/None, a number, a     *)
(*              display string such as "$3.1K", a string that is no        *)
(*              number such as "n/a", or the empty string)                 *)
(*   wallet     get_wallet_balances (never raises): rows, no rows, or the  *)
(*              error dict                                                 *)
(*   apy        get_sanctum_apy (never raises): None or a percentage       *)
(*   epoch      the get_current_epoch call made for the embed              *)
(*   send       channel.send: "ok", or it raises HTTPException or another  *)
(*              exception                                                  *)
(***************************************************************************)
Fields ==
    { "sol_price ($)", "stake", "Current Supply", "leader_rewards",
      "commission", "voting_fee", "current_stats_val",
      "StrongSOL 24hr Volume ($)", "Holders" }

\* the fields rendered with a numeric format spec (:,.2f or :,.0f)
FormattedFields ==
    { "sol_price ($)", "stake", "Current Supply", "leader_rewards",
      "current_stats_val", "Holders" }

RawKinds == { "none", "num", "str", "text", "empty" }

AllOf(k) == [f \in Fields |-> k]

FirecrawlData ==
    { AllOf("num"), AllOf("none") }
    \cup { [AllOf("num") EXCEPT ![f] = k] : f \in Fields, k \in RawKinds \ { "num" } }

\* what the extraction service does: a transport failure, an answer with an
\* error, an object without success/error, a success without data, or data
ScrapeAnswers ==
    { [kind |-> k, data |-> AllOf("none")] :
        k \in TransportFailures \cup { "error", "unexpected", "nodata" } }
    \cup { [kind |-> "data", data |-> d] : d \in FirecrawlData }

\* discord_bot.py:396-409: app.extract run in a thread; there is no try around
\* the call itself, so what the SDK raises reaches post_update's body
extract(answer) ==
    IF answer.kind \in TransportFailures
    THEN [kind |-> "raise", data |-> AllOf("none")]
    ELSE answer

FirecrawlResponses == { extract(answer) : answer \in ScrapeAnswers }

Channels == { "ok", "none" }
WalletResults == { wallet_kind(get_wallet_balances(feed)) : feed \in WalletFeeds }
ApyResults == { get_sanctum_apy(answer) : answer \in ApyAnswers }
SendOutcomes == { "ok", "http_error", "error" }

PostInputs ==
    [ channel : Channels, firecrawl : FirecrawlResponses, wallet : WalletResults,
      apy : ApyResults, epoch : EpochReads, send : SendOutcomes ]

\* discord_bot.py:413-424: data stays {} unless the response is a success with data
ExtractedData(firecrawl) ==
    IF firecrawl.kind = "data" THEN firecrawl.data ELSE AllOf("none")

\* discord_bot.py:464-470,514: f"{value:,.2f}" raises ValueError on a str value
RenderRaises(data) == \E f \in FormattedFields : data[f] \in { "str", "text", "empty" }

(***************************************************************************)
(* What one call of post_update does:                                      *)
(*   "aborted"      an exception before channel.send was caught and        *)
(*                  logged by the handlers at the end; nothing was sent    *)
(*   "no_channel"   terminal test mode: data printed, nothing sent         *)
(*   "sent"         channel.send returned                                  *)
(*   "send_failed"  channel.send raised; caught and logged                 *)
(* The call gives up control five times: at app.extract (line 396), at     *)
(* get_wallet_balances (426), at get_sanctum_apy (429), at                 *)
(* get_current_epoch (460) and at channel.send (516).                      *)
(***************************************************************************)
\* the await a post_update call is suspended at
PostAwaits == { "extract", "wallet", "apy", "epoch", "send" }

\* discord_bot.py:396-531, from one await to the next: the call is suspended
\* at pc and the awaited call answers as inp says; the await the call runs to,
\* or "done" and its result when it returns
post_update_resume(pc, inp) ==
    IF pc = "extract"
    THEN IF inp.firecrawl.kind = "raise"
         THEN [pc |-> "done", result |-> "aborted"]
         ELSE [pc |-> "wallet", result |-> "none"]
    ELSE IF pc = "wallet" THEN [pc |-> "apy", result |-> "none"]
    ELSE IF pc = "apy"
    THEN IF inp.channel = "none"
         THEN [pc |-> "done", result |-> "no_channel"]
         ELSE [pc |-> "epoch", result |-> "none"]
    ELSE IF pc = "epoch"
    THEN IF RenderRaises(ExtractedData(inp.firecrawl))
         THEN [pc |-> "done", result |-> "aborted"]
         ELSE [pc |-> "send", result |-> "none"]
    ELSE IF inp.send = "ok"
         THEN [pc |-> "done", result |-> "sent"]
         ELSE [pc |-> "done", result |-> "send_failed"]

\* every way a call suspended at pc can go on, over all the answers of the
\* outside world
PostSteps == [pc \in PostAwaits |-> { post_update_resume(pc, inp) : inp \in PostInputs }]

(***************************************************************************)
(* The embed post_update builds.  A field's text is kept as what it shows: *)
(* "N/A", "value" (the raw value, formatted), "blank" (the unit alone,     *)
(* after an empty string), "Error fetching" (the wallet feed's error       *)
(* text), or "raises" where the f-string raises ValueError.                *)
(***************************************************************************)
\* a value of each kind, as the scrape holds it in the volume field
volume_of_kind(raw) ==
    IF raw = "num" THEN PyFloat(3100, 1)
    ELSE IF raw = "str" THEN PyStr("$3.1K")
    ELSE IF raw = "text" THEN PyStr("n/a")
    ELSE IF raw = "empty" THEN PyStr("")
    ELSE PyNone

\* discord_bot.py:497-513: a number passes; a string is parsed, and one that
\* float() refuses leaves volume_val None, which format_volume shows as "N/A"
render_volume(raw) ==
    IF format_volume(volume_val_of(volume_of_kind(raw))).text = "N/A" THEN "N/A" ELSE "value"

\* discord_bot.py:464-470,513-514: the text of one scraped field
render_field(f, raw) ==
    IF f = "StrongSOL 24hr Volume ($)" THEN render_volume(raw)
    ELSE IF raw = "none" THEN "N/A"
    ELSE IF f \in FormattedFields
         THEN IF raw = "num" THEN "value" ELSE "raises"
         ELSE IF raw = "empty" THEN "blank" ELSE "value"

\* discord_bot.py:479-488: the wallet section
render_wallet(wallet) ==
    IF wallet = "balances" THEN "value"
    ELSE IF wallet = "error" THEN "Error fetching"
    ELSE "N/A"

\* discord_bot.py:491-494
render_apy(apy) == IF apy # None THEN "value" ELSE "N/A"

\* discord_bot.py:458-514: epoch is None when the 'Current Epoch' field is
\* left out (lines 460-462)
post_update_embed(inp) ==
    [ epoch |-> inp.epoch,
      fields |-> [f \in Fields |-> render_field(f, ExtractedData(inp.firecrawl)[f])],
      wallet |-> render_wallet(inp.wallet),
      apy |-> render_apy(inp.apy) ]

(***************************************************************************)
(* check_epoch: one tick of the tasks.loop.  The tick is suspended at      *)
(* "await post_update()" for as long as the call is suspended at one of    *)
(* its own awaits, so it is modelled in steps: the read and the comparison *)
(* (up to the first await of post_update), the call from each of its       *)
(* awaits to the next, and the assignment that follows its return.         *)
(***************************************************************************)
\* mutants of the comparison: "!=" and ">=" in place of ">"
epoch_changed(new, cur) == new # cur
epoch_not_lower(new, cur) == new >= cur

\* discord_bot.py:550: new_epoch > current_epoch
epoch_increased(new, cur) == new > cur

\* mutant: a failed read is stored as the current epoch
check_epoch_read_failed_stored ==
    /\ w_pc = "idle"
    /\ Len(reads) < MaxReads
    /\ reads' = Append(reads, None)
    /\ current_epoch' = None
    /\ UNCHANGED << w_pc, new_epoch, post_result, published, post_epoch, epoch_window >>
    /\ UNCHANGED << ledgerVars, manualVars, sourceVars, collectVars, submitVars, volumeVars, alive >>

\* mutant: the timer starts a tick while the previous one is still running
check_epoch_read_failed_overlapping ==
    /\ Len(reads) < MaxReads
    /\ reads' = Append(reads, None)
    /\ UNCHANGED << current_epoch, w_pc, new_epoch, post_result, published, post_epoch, epoch_window >>
    /\ UNCHANGED << ledgerVars, manualVars, sourceVars, collectVars, submitVars, volumeVars, alive >>

\* mutant: a failed read of a watcher that has no epoch yet stores a
\* stand-in epoch
check_epoch_read_failed_arms ==
    /\ w_pc = "idle"
    /\ Len(reads) < MaxReads
    /\ reads' = Append(reads, None)
    /\ current_epoch' = IF current_epoch = None THEN Some(MinEpoch) ELSE current_epoch
    /\ UNCHANGED << w_pc, new_epoch, post_result, published, post_epoch, epoch_window >>
    /\ UNCHANGED << ledgerVars, manualVars, sourceVars, collectVars, submitVars, volumeVars, alive >>

\* discord_bot.py:533,538-541: tasks.loop starts a tick only when the one before
\* it has returned
check_epoch_read_failed ==
    /\ w_pc = "idle"
    /\ Len(reads) < MaxReads
    /\ reads' = Append(reads, None)
    /\ UNCHANGED << current_epoch, w_pc, new_epoch, post_result, published, post_epoch, epoch_window >>
    /\ UNCHANGED << ledgerVars, manualVars, sourceVars, collectVars, submitVars, volumeVars, alive >>

\* mutant: the first good read posts an update (the call commented out at line 547)
check_epoch_initial_posts ==
    /\ w_pc = "idle"
    /\ Len(reads) < MaxReads
    /\ current_epoch = None
    /\ \E r \in get_current_epoch :
        /\ r # None
        /\ reads' = Append(reads, r)
        /\ current_epoch' = r
        /\ new_epoch' = r
    /\ w_pc' = "extract"
    /\ UNCHANGED << post_result, published, post_epoch, epoch_window >>
    /\ UNCHANGED << ledgerVars, manualVars, sourceVars, collectVars, submitVars, volumeVars, alive >>

\* discord_bot.py:543-548
check_epoch_initial ==
    /\ w_pc = "idle"
    /\ Len(reads) < MaxReads
    /\ current_epoch = None
    /\ \E r \in get_current_epoch :
        /\ r # None
        /\ reads' = Append(reads, r)
        /\ current_epoch' = r
    /\ UNCHANGED << w_pc, new_epoch, post_result, published, post_epoch, epoch_window >>
    /\ UNCHANGED << ledgerVars, manualVars, sourceVars, collectVars, submitVars, volumeVars, alive >>

\* mutant: current_epoch is assigned before post_update is awaited
check_epoch_detected_early_advance ==
    /\ w_pc = "idle"
    /\ Len(reads) < MaxReads
    /\ current_epoch # None
    /\ \E r \in get_current_epoch :
        /\ r # None
        /\ epoch_increased(r[1], current_epoch[1])
        /\ reads' = Append(reads, r)
        /\ new_epoch' = r
        /\ current_epoch' = r
    /\ w_pc' = "extract"
    /\ UNCHANGED << post_result, published, post_epoch, epoch_window >>
    /\ UNCHANGED << ledgerVars, manualVars, sourceVars, collectVars, submitVars, volumeVars, alive >>

\* discord_bot.py:550-552 with 384-396: post_update is called and runs up to
\* the await of app.extract
check_epoch_detected ==
    /\ w_pc = "idle"
    /\ Len(reads) < MaxReads
    /\ current_epoch # None
    /\ \E r \in get_current_epoch :
        /\ r # None
        /\ epoch_increased(r[1], current_epoch[1])
        /\ reads' = Append(reads, r)
        /\ new_epoch' = r
    /\ w_pc' = "extract"
    /\ UNCHANGED << current_epoch, post_result, published, post_epoch, epoch_window >>
    /\ UNCHANGED << ledgerVars, manualVars, sourceVars, collectVars, submitVars, volumeVars, alive >>

\* mutant: the epoch read is stored also when it is not higher
check_epoch_no_change_stores ==
    /\ w_pc = "idle"
    /\ Len(reads) < MaxReads
    /\ current_epoch # None
    /\ \E r \in get_current_epoch :
        /\ r # None
        /\ ~ epoch_increased(r[1], current_epoch[1])
        /\ reads' = Append(reads, r)
        /\ current_epoch' = r
    /\ UNCHANGED << w_pc, new_epoch, post_result, published, post_epoch, epoch_window >>
    /\ UNCHANGED << ledgerVars, manualVars, sourceVars, collectVars, submitVars, volumeVars, alive >>

\* discord_bot.py:554-555
check_epoch_no_change ==
    /\ w_pc = "idle"
    /\ Len(reads) < MaxReads
    /\ current_epoch # None
    /\ \E r \in get_current_epoch :
        /\ r # None
        /\ ~ epoch_increased(r[1], current_epoch[1])
        /\ reads' = Append(reads, r)
    /\ UNCHANGED << current_epoch, w_pc, new_epoch, post_result, published, post_epoch, epoch_window >>
    /\ UNCHANGED << ledgerVars, manualVars, sourceVars, collectVars, submitVars, volumeVars, alive >>

\* mutant: a post_update that failed raises into check_epoch, which ends the loop
check_epoch_post_update_raising ==
    /\ w_pc \in PostAwaits
    /\ \E step \in PostSteps[w_pc] :
        /\ w_pc' = IF step.pc # "done" THEN step.pc
                   ELSE IF step.result \in { "aborted", "send_failed" } THEN "stopped"
                   ELSE "posted"
        /\ post_result' = IF step.pc = "done" THEN step.result ELSE post_result
        /\ published' = IF step.pc = "done" THEN Append(published, new_epoch[1])
                          ELSE published
        /\ post_epoch' \in IF w_pc = "epoch" /\ step.pc = "send"
                            THEN { Some(r) : r \in get_current_epoch }
                            ELSE { post_epoch }
    /\ UNCHANGED << current_epoch, new_epoch, reads, epoch_window >>
    /\ UNCHANGED << ledgerVars, manualVars, sourceVars, collectVars, submitVars, volumeVars, alive >>

\* discord_bot.py:552 with 396-531: the awaited post_update call resumes at
\* the await it is suspended at and runs to its next await or to its return.
\* The epoch read again at line 460 is the "Current Epoch" of the embed.
check_epoch_post_update ==
    /\ w_pc \in PostAwaits
    /\ \E step \in PostSteps[w_pc] :
        /\ w_pc' = IF step.pc = "done" THEN "posted" ELSE step.pc
        /\ post_result' = IF step.pc = "done" THEN step.result ELSE post_result
        /\ published' = IF step.pc = "done" THEN Append(published, new_epoch[1])
                          ELSE published
        /\ post_epoch' \in IF w_pc = "epoch" /\ step.pc = "send"
                            THEN { Some(r) : r \in get_current_epoch }
                            ELSE { post_epoch }
    /\ UNCHANGED << current_epoch, new_epoch, reads, epoch_window >>
    /\ UNCHANGED << ledgerVars, manualVars, sourceVars, collectVars, submitVars, volumeVars, alive >>

\* mutant: current_epoch advances only when the update was delivered
check_epoch_advance_if_sent ==
    /\ w_pc = "posted"
    /\ current_epoch' = IF post_result = "sent" THEN new_epoch ELSE current_epoch
    /\ new_epoch' = None
    /\ post_epoch' = None
    /\ w_pc' = "idle"
    /\ UNCHANGED << post_result, reads, published, epoch_window >>
    /\ UNCHANGED << ledgerVars, manualVars, sourceVars, collectVars, submitVars, volumeVars, alive >>

\* discord_bot.py:553
check_epoch_advance ==
    /\ w_pc = "posted"
    /\ current_epoch' = new_epoch
    /\ new_epoch' = None
    /\ post_epoch' = None
    /\ w_pc' = "idle"
    /\ UNCHANGED << post_result, reads, published, epoch_window >>
    /\ UNCHANGED << ledgerVars, manualVars, sourceVars, collectVars, submitVars, volumeVars, alive >>

WatcherStart(window) ==
    /\ current_epoch = None
    /\ w_pc = "idle"
    /\ new_epoch = None
    /\ post_result = "none"
    /\ reads = << >>
    /\ published = << >>
    /\ post_epoch = None
    /\ epoch_window = window

(***************************************************************************)
(* ExpenseHandler: the durable store (a Google Sheet) and the notification *)
(* sink (the Discord outgoings channel).                                   *)
(***************************************************************************)
\* expense_handler.py:79-88
DesiredHeaders ==
    << "Category", "Amount", "Currency", "Solana Epoch", "Transaction Hash",
       "Timestamp", "Discord User", "Notes" >>

\* a sheet of the 7-column layout that line 95 calls legacy
LegacyHeaders ==
    << "Category", "Amount", "Solana Epoch", "Transaction Hash", "Timestamp",
       "Discord User", "Notes" >>

\* the rows 1 a sheet may hold when the session starts
HeaderRows ==
    { << >>, LegacyHeaders, DesiredHeaders,
      [DesiredHeaders EXCEPT ![3] = "Token"],
      DesiredHeaders \o << "Extra" >>,
      [DesiredHeaders EXCEPT ![3] = "Token"] \o << "Extra" >> }

\* mutant: only a missing or short row 1 is repaired
need_update_length_only(row) ==
    \/ Len(row) = 0
    \/ Len(row) < Len(DesiredHeaders)

\* expense_handler.py:90-97
need_update(row) ==
    \/ Len(row) = 0
    \/ Len(row) < Len(DesiredHeaders)
    \/ SubSeq(row, 1, Len(DesiredHeaders)) # DesiredHeaders

\* expense_handler.py:99-107: the update writes the range A1:H1 only
headers_updated(row) ==
    DesiredHeaders \o SubSeq(row, Len(DesiredHeaders) + 1, Len(row))

\* the entries submitted in the model
UserData ==
    [ category : { "LST Reserve", "Other: misc" },
      amount : { "125.5" },
      epoch : { None, Some(MinEpoch) } ]

\* expense_handler.py:130-141; the timestamp is the number of the call
row_data(ud, ts) ==
    [ category |-> ud.category, amount |-> ud.amount, currency |-> "SOL",
      epoch |-> ud.epoch, timestamp |-> ts ]

\* expense_handler.py:188-210: the embed; its timestamp is the number of the call
embed_of(ud, ts) ==
    [ title_epoch |-> ud.epoch, category |-> ud.category, amount |-> ud.amount,
      currency |-> "SOL", timestamp |-> ts ]

Failure(msg) == [success |-> FALSE, message |-> msg, timestamp |-> None]
Success(msg, ts) == [success |-> TRUE, message |-> msg, timestamp |-> ts]

SheetsOk == "Expense logged to Google Sheets successfully"
SheetsInitFailed == "Failed to initialize Google Sheets service"
SheetsHttpError == "Google Sheets API error"
SheetsError == "Unexpected error logging to Google Sheets"
DiscordOk == "Posted to Discord outgoings channel successfully"
DiscordNoChannel == "Outgoings channel not found"
DiscordHttpError == "Discord error posting to outgoings channel"
DiscordError == "Unexpected error posting to Discord"

SheetsMessages == { SheetsOk, SheetsInitFailed, SheetsHttpError, SheetsError }
DiscordMessages == { DiscordOk, DiscordNoChannel, DiscordHttpError, DiscordError }

\* expense_handler.py:156-175: the dict returned after the append request
append_result(app, ts) ==
    IF app = "ok" THEN Success(SheetsOk, Some(ts))
    ELSE IF app = "http_error" THEN Failure(SheetsHttpError)
    ELSE Failure(SheetsError)

\* expense_handler.py:180-232: the dict post_to_discord returns
post_to_discord_result(ch, send) ==
    IF ch = "none" THEN Failure(DiscordNoChannel)
    ELSE IF send = "ok" THEN Success(DiscordOk, None)
    ELSE IF send = "http_error" THEN Failure(DiscordHttpError)
    ELSE Failure(DiscordError)

\* expense_handler.py:267
failed_system(sr) == IF ~ sr.success THEN "Google Sheets" ELSE "Discord"

\* expense_handler.py:268
successful_system(sr) == IF ~ sr.success THEN "Discord" ELSE "Google Sheets"

\* mutant: the reason is taken from the other side
failed_message_swapped(sr, dr) == IF ~ sr.success THEN dr.message ELSE sr.message

\* expense_handler.py:271: the reason printed after the failed system's name
failed_message(sr, dr) == IF ~ sr.success THEN sr.message ELSE dr.message

\* mutant: one succeeding side is enough for overall success
log_expense_either(sr, dr) ==
    [ success |-> sr.success \/ dr.success,
      message |-> [ head |-> "Expense logged successfully", succeeded |-> None,
                    failed |-> None, bullets |-> << >> ],
      timestamp |-> sr.timestamp ]

(***************************************************************************)
(* expense_handler.py:253-272: the dict log_expense returns.  The message  *)
(* text is kept as its parts: the headline, the two systems the headline   *)
(* names, and the bullet lines "<system>: <reason>".                       *)
(***************************************************************************)
log_expense(sr, dr) ==
    IF sr.success /\ dr.success
    THEN [ success |-> TRUE,
           message |-> [ head |-> "Expense logged successfully", succeeded |-> None,
                         failed |-> None, bullets |-> << >> ],
           timestamp |-> sr.timestamp ]
    ELSE IF ~ sr.success /\ ~ dr.success
    THEN [ success |-> FALSE,
           message |-> [ head |-> "Failed to log expense", succeeded |-> None,
                         failed |-> None,
                         bullets |-> << << "Google Sheets", sr.message >>,
                                        << "Discord", dr.message >> >> ],
           timestamp |-> None ]
    ELSE [ success |-> FALSE,
           message |-> [ head |-> "Partial failure",
                         succeeded |-> Some(successful_system(sr)),
                         failed |-> Some(failed_system(sr)),
                         bullets |-> << << failed_system(sr), failed_message(sr, dr) >> >> ],
           timestamp |-> None ]

(***************************************************************************)
(* log_expense calls, from await to await.  A call gives up control at the *)
(* build of the service (line 46), at the read of row 1 (74), at the       *)
(* update of row 1 (107), at the append (154) and at channel.send (212).   *)
(* A request that changes the far end (update, append, send) is carried    *)
(* out by the far end in a step of its own, between the step that issues   *)
(* it and the step in which the call resumes: a request that was carried   *)
(* out returns, one that was not raises.  Calls that are in flight         *)
(* together run in slots of their own; a call takes the lowest free slot.  *)
(* The update and the append are run by asyncio.to_thread: the request is  *)
(* handed to a worker thread, which runs request.execute whether or not    *)
(* the coroutine still waits for it.                                       *)
(***************************************************************************)
\* expense_handler.py:234-250 with 116-118: a caller invokes
\* log_expense(user_data); the call enters log_to_google_sheets
log_expense_call(k) ==
    /\ l_pc[k] = "idle"
    /\ \A j \in 1..(k - 1) : l_pc[j] # "idle"
    /\ calls < MaxCalls
    /\ \E ud \in UserData : user_data' = [user_data EXCEPT ![k] = Some(ud)]
    /\ calls' = calls + 1
    /\ call_no' = [call_no EXCEPT ![k] = calls + 1]
    /\ sheets_result' = [sheets_result EXCEPT ![k] = None]
    /\ discord_result' = [discord_result EXCEPT ![k] = None]
    /\ result' = [result EXCEPT ![k] = None]
    /\ l_pc' = [l_pc EXCEPT ![k] = "sheets"]
    /\ UNCHANGED << service, sheet_headers, sheet_rows, outgoings, appended,
                    header_reads, header_calls, served, row1, detached, besideLedger >>

\* mutant: without a store service log_expense gives up and the notification
\* post is not attempted
log_to_google_sheets_init_failed_returns(k) ==
    /\ \/ l_pc[k] = "sheets" /\ service = "none"
       \/ l_pc[k] = "build"
    /\ sheets_result' = [sheets_result EXCEPT ![k] = Some(Failure(SheetsInitFailed))]
    /\ discord_result' = [discord_result EXCEPT ![k] = Some(Failure(DiscordNoChannel))]
    /\ l_pc' = [l_pc EXCEPT ![k] = "return"]
    /\ UNCHANGED << service, sheet_headers, sheet_rows, outgoings, user_data,
                    result, calls, appended, header_reads, header_calls,
                    served, call_no, row1, detached, besideLedger >>

\* expense_handler.py:119-124 with 28-57: initialize() returns False, at once
\* when there are no credentials, or after the build raised
log_to_google_sheets_init_failed(k) ==
    /\ \/ l_pc[k] = "sheets" /\ service = "none"
       \/ l_pc[k] = "build"
    /\ sheets_result' = [sheets_result EXCEPT ![k] = Some(Failure(SheetsInitFailed))]
    /\ l_pc' = [l_pc EXCEPT ![k] = "discord"]
    /\ UNCHANGED << service, sheet_headers, sheet_rows, outgoings, user_data,
                    discord_result, result, calls, appended, header_reads,
                    header_calls, served, call_no, row1, detached, besideLedger >>

\* expense_handler.py:119-120 with 28-48: there is no service; initialize()
\* finds the credentials and awaits the build
initialize(k) ==
    /\ l_pc[k] = "sheets"
    /\ service = "none"
    /\ l_pc' = [l_pc EXCEPT ![k] = "build"]
    /\ UNCHANGED << service, sheet_headers, sheet_rows, outgoings, user_data,
                    sheets_result, discord_result, result, calls, appended,
                    header_reads, header_calls, served, call_no,
                    row1, detached, besideLedger >>

\* expense_handler.py:46-52: the build returned; self.service is assigned and
\* initialize() returns True
initialize_built(k) ==
    /\ l_pc[k] = "build"
    /\ service' = "built"
    /\ l_pc' = [l_pc EXCEPT ![k] = "sheets"]
    /\ UNCHANGED << sheet_headers, sheet_rows, outgoings, user_data,
                    sheets_result, discord_result, result, calls, appended,
                    header_reads, header_calls, served, call_no,
                    row1, detached, besideLedger >>

\* expense_handler.py:127 with 59-74: setup_headers_if_needed is called, on
\* every call that has a service, and awaits the read of row 1
setup_headers_if_needed_get(k) ==
    /\ l_pc[k] = "sheets"
    /\ service = "built"
    /\ header_reads' = header_reads + 1
    /\ l_pc' = [l_pc EXCEPT ![k] = "header_get"]
    /\ UNCHANGED << service, sheet_headers, sheet_rows, outgoings, user_data,
                    sheets_result, discord_result, result, calls, appended,
                    header_calls, served, call_no, row1, detached, besideLedger >>

\* expense_handler.py:69-74: the sheet answers the read with the row 1 it
\* holds
values_get(k) ==
    /\ l_pc[k] = "header_get"
    /\ ~ served[k]
    /\ row1' = [row1 EXCEPT ![k] = Some(sheet_headers)]
    /\ served' = [served EXCEPT ![k] = TRUE]
    /\ UNCHANGED << service, sheet_headers, sheet_rows, outgoings, l_pc, user_data,
                    sheets_result, discord_result, result, calls, appended,
                    header_reads, header_calls, call_no, detached, besideLedger >>

\* expense_handler.py:74-107,112-114: the read of row 1 returned or raised.
\* A read that raised and a row 1 in order end the header check; otherwise
\* the update of A1:H1 is awaited
setup_headers_if_needed_checked(k) ==
    /\ l_pc[k] = "header_get"
    /\ IF served[k] /\ need_update(row1[k][1])
       THEN /\ l_pc' = [l_pc EXCEPT ![k] = "header_update"]
            /\ UNCHANGED header_calls
       ELSE /\ l_pc' = [l_pc EXCEPT ![k] = "row"]
            /\ header_calls' = Append(header_calls, [ok |-> served[k], wrote |-> FALSE])
    /\ served' = [served EXCEPT ![k] = FALSE]
    /\ row1' = [row1 EXCEPT ![k] = None]
    /\ UNCHANGED << service, sheet_headers, sheet_rows, outgoings, user_data,
                    sheets_result, discord_result, result, calls, appended,
                    header_reads, call_no, detached, besideLedger >>

\* expense_handler.py:99-107: the sheet carries out the update request
values_update(k) ==
    /\ l_pc[k] = "header_update"
    /\ ~ served[k]
    /\ sheet_headers' = headers_updated(sheet_headers)
    /\ served' = [served EXCEPT ![k] = TRUE]
    /\ UNCHANGED << service, sheet_rows, outgoings, l_pc, user_data,
                    sheets_result, discord_result, result, calls, appended,
                    header_reads, header_calls, call_no, row1, detached, besideLedger >>

\* expense_handler.py:107-114: the update request returned (True) or raised
\* (False)
setup_headers_if_needed_return(k) ==
    /\ l_pc[k] = "header_update"
    /\ header_calls' = Append(header_calls, [ok |-> served[k], wrote |-> served[k]])
    /\ served' = [served EXCEPT ![k] = FALSE]
    /\ l_pc' = [l_pc EXCEPT ![k] = "row"]
    /\ UNCHANGED << service, sheet_headers, sheet_rows, outgoings, user_data,
                    sheets_result, discord_result, result, calls, appended,
                    header_reads, call_no, row1, detached, besideLedger >>

\* mutant: a failed header check ends the call; the row is not appended
log_to_google_sheets_append_needs_headers(k) ==
    /\ l_pc[k] = "row"
    /\ IF header_calls[Len(header_calls)].ok
       THEN /\ l_pc' = [l_pc EXCEPT ![k] = "append"]
            /\ UNCHANGED sheets_result
       ELSE /\ l_pc' = [l_pc EXCEPT ![k] = "discord"]
            /\ sheets_result' = [sheets_result EXCEPT ![k] = Some(Failure(SheetsError))]
    /\ UNCHANGED << service, sheet_headers, sheet_rows, outgoings, user_data,
                    discord_result, result, calls, appended, header_reads,
                    header_calls, served, call_no, row1, detached, besideLedger >>

\* expense_handler.py:127-154: whatever setup_headers_if_needed returned, the
\* row is built and the append is awaited
log_to_google_sheets_append(k) ==
    /\ l_pc[k] = "row"
    /\ l_pc' = [l_pc EXCEPT ![k] = "append"]
    /\ UNCHANGED << service, sheet_headers, sheet_rows, outgoings, user_data,
                    sheets_result, discord_result, result, calls, appended,
                    header_reads, header_calls, served, call_no,
                    row1, detached, besideLedger >>

\* an entry with the same content is already in the store
same_entry(row, ud) ==
    row.category = ud.category /\ row.amount = ud.amount /\ row.epoch = ud.epoch

\* mutant: the store is searched first and an entry it already holds is not
\* appended again
values_append_dedup(k) ==
    /\ l_pc[k] = "append"
    /\ ~ served[k]
    /\ sheet_rows' =
         IF \E i \in 1..Len(sheet_rows) : same_entry(sheet_rows[i], user_data[k][1])
         THEN sheet_rows
         ELSE Append(sheet_rows, row_data(user_data[k][1], call_no[k]))
    /\ appended' = appended \cup { call_no[k] }
    /\ served' = [served EXCEPT ![k] = TRUE]
    /\ UNCHANGED << service, sheet_headers, outgoings, l_pc, user_data,
                    sheets_result, discord_result, result, calls,
                    header_reads, header_calls, call_no, row1, detached, besideLedger >>

\* expense_handler.py:147-154: the sheet carries out the append request: the
\* row goes below the rows it holds
values_append(k) ==
    /\ l_pc[k] = "append"
    /\ ~ served[k]
    /\ sheet_rows' = Append(sheet_rows, row_data(user_data[k][1], call_no[k]))
    /\ appended' = appended \cup { call_no[k] }
    /\ served' = [served EXCEPT ![k] = TRUE]
    /\ UNCHANGED << service, sheet_headers, outgoings, l_pc, user_data,
                    sheets_result, discord_result, result, calls,
                    header_reads, header_calls, call_no, row1, detached, besideLedger >>

\* expense_handler.py:154-175: the append request returned or raised
log_to_google_sheets_return(k) ==
    /\ l_pc[k] = "append"
    /\ \E app \in { "ok", "http_error", "error" } :
        /\ (app = "ok") = served[k]
        /\ sheets_result' = [sheets_result EXCEPT ![k] = Some(append_result(app, call_no[k]))]
    /\ served' = [served EXCEPT ![k] = FALSE]
    /\ l_pc' = [l_pc EXCEPT ![k] = "discord"]
    /\ UNCHANGED << service, sheet_headers, sheet_rows, outgoings, user_data,
                    discord_result, result, calls, appended, header_reads,
                    header_calls, call_no, row1, detached, besideLedger >>

\* expense_handler.py:251 with 177-212: post_to_discord is called; without
\* the channel it returns at once, with it channel.send is awaited
post_to_discord(k) ==
    /\ l_pc[k] = "discord"
    /\ \E ch \in Channels :
        IF ch = "none"
        THEN /\ discord_result' = [discord_result EXCEPT ![k] = Some(post_to_discord_result(ch, "ok"))]
             /\ l_pc' = [l_pc EXCEPT ![k] = "return"]
        ELSE /\ l_pc' = [l_pc EXCEPT ![k] = "send"]
             /\ UNCHANGED discord_result
    /\ UNCHANGED << service, sheet_headers, sheet_rows, outgoings, user_data,
                    sheets_result, result, calls, appended, header_reads,
                    header_calls, served, call_no, row1, detached, besideLedger >>

\* expense_handler.py:212: the channel takes the embed
channel_send(k) ==
    /\ l_pc[k] = "send"
    /\ ~ served[k]
    /\ outgoings' = Append(outgoings, embed_of(user_data[k][1], call_no[k]))
    /\ served' = [served EXCEPT ![k] = TRUE]
    /\ UNCHANGED << service, sheet_headers, sheet_rows, l_pc, user_data,
                    sheets_result, discord_result, result, calls, appended,
                    header_reads, header_calls, call_no, row1, detached, besideLedger >>

\* expense_handler.py:212-232: channel.send returned or raised
post_to_discord_return(k) ==
    /\ l_pc[k] = "send"
    /\ \E send \in SendOutcomes :
        /\ (send = "ok") = served[k]
        /\ discord_result' = [discord_result EXCEPT ![k] = Some(post_to_discord_result("ok", send))]
    /\ served' = [served EXCEPT ![k] = FALSE]
    /\ l_pc' = [l_pc EXCEPT ![k] = "return"]
    /\ UNCHANGED << service, sheet_headers, sheet_rows, outgoings, user_data,
                    sheets_result, result, calls, appended, header_reads,
                    header_calls, call_no, row1, detached, besideLedger >>

\* the rows of a store without the row of call c
RowsWithout(rows, c) == SelectSeq(rows, LAMBDA row : row.timestamp # c)

\* mutant: a one-sided failure deletes the row the store accepted
log_expense_return_rollback(k) ==
    /\ l_pc[k] = "return"
    /\ result' = [result EXCEPT ![k] = Some(log_expense(sheets_result[k][1], discord_result[k][1]))]
    /\ sheet_rows' = IF sheets_result[k][1].success /\ ~ discord_result[k][1].success
                       THEN RowsWithout(sheet_rows, call_no[k])
                       ELSE sheet_rows
    /\ l_pc' = [l_pc EXCEPT ![k] = "idle"]
    /\ UNCHANGED << service, sheet_headers, outgoings, user_data,
                    sheets_result, discord_result, calls, appended,
                    header_reads, header_calls, served, call_no,
                    row1, detached, besideLedger >>

\* expense_handler.py:253-272
log_expense_return(k) ==
    /\ l_pc[k] = "return"
    /\ result' = [result EXCEPT ![k] = Some(log_expense(sheets_result[k][1], discord_result[k][1]))]
    /\ l_pc' = [l_pc EXCEPT ![k] = "idle"]
    /\ UNCHANGED << service, sheet_headers, sheet_rows, outgoings, user_data,
                    sheets_result, discord_result, calls, appended,
                    header_reads, header_calls, served, call_no,
                    row1, detached, besideLedger >>

\* the request the call of slot k has handed to a worker thread; entry is the
\* place in header_calls of the header check that issued an update, 0 when
\* that check has not returned
Request(k, entry) ==
    [ request |-> IF l_pc[k] = "append" THEN "append" ELSE "update",
      call |-> call_no[k],
      row |-> IF l_pc[k] = "append" THEN Some(row_data(user_data[k][1], call_no[k]))
              ELSE None,
      entry |-> entry ]

\* expense_handler.py:107,154: request.execute in a worker thread whose
\* coroutine has gone on without it: the sheet carries the request out, the
\* update of row 1 or the append of the row, and nothing receives the answer
request_execute ==
    \E req \in detached :
        /\ detached' = detached \ { req }
        /\ IF req.request = "append"
           THEN /\ sheet_rows' = Append(sheet_rows, req.row[1])
                /\ appended' = appended \cup { req.call }
                /\ UNCHANGED << sheet_headers, header_calls >>
           ELSE /\ sheet_headers' = headers_updated(sheet_headers)
                /\ header_calls' =
                     IF req.entry = 0 THEN header_calls
                     ELSE [header_calls EXCEPT ![req.entry].wrote = TRUE]
                /\ UNCHANGED << sheet_rows, appended >>
        /\ UNCHANGED << service, outgoings, l_pc, user_data, sheets_result,
                        discord_result, result, calls, header_reads, served,
                        call_no, row1, besideLedger >>

\* expense_handler.py:274-284 with 46-52: the "!test_expense" command.  While
\* there is no service, test_connection calls initialize(); the step is the
\* return of its build, which assigns self.service.  Nothing else it does
\* (the read of the spreadsheet, the channel lookup) is kept here.
test_connection ==
    /\ service = "none"
    /\ service' = "built"
    /\ UNCHANGED << sheet_headers, sheet_rows, outgoings, l_pc, user_data,
                    sheets_result, discord_result, result, calls, appended,
                    header_reads, header_calls, served, call_no,
                    row1, detached, besideLedger >>

(***************************************************************************)
(* ExpenseModal.on_submit: the epoch read, the validation of the amount,   *)
(* the category, the log_expense call and the followup message.            *)
(***************************************************************************)
\* a float that is a number (in tenths), or one of float's values that are
\* not: nan, inf, -inf
Finite(tenths) == [ kind |-> "finite", tenths |-> tenths ]
NotFinite(kind) == [ kind |-> kind, tenths |-> 0 ]

\* what the amount box holds: its text, what float() makes of the stripped
\* text (None when float() raises ValueError), and str() of that
AmountInputs ==
    { [text |-> "125.50", float |-> Some(Finite(1255)), str |-> "125.5"],
      [text |-> " 7 ", float |-> Some(Finite(70)), str |-> "7.0"],
      [text |-> "0", float |-> Some(Finite(0)), str |-> "0.0"],
      [text |-> "-3", float |-> Some(Finite(-30)), str |-> "-3.0"],
      [text |-> "abc", float |-> None, str |-> ""],
      [text |-> "", float |-> None, str |-> ""],
      [text |-> "nan", float |-> Some(NotFinite("nan")), str |-> "nan"],
      [text |-> "inf", float |-> Some(NotFinite("inf")), str |-> "inf"],
      [text |-> "-inf", float |-> Some(NotFinite("-inf")), str |-> "-inf"] }

\* discord_bot.py:148: amount_val <= 0; every comparison with nan is False
at_most_zero(amount_val) ==
    \/ amount_val.kind = "finite" /\ amount_val.tenths <= 0
    \/ amount_val.kind = "-inf"

\* discord_bot.py:147-151
amount_valid(amount) == amount.float # None /\ ~ at_most_zero(amount.float[1])

\* what the category box holds
CategoryInputs ==
    { "LST Reserve", " Team Payout ", "Other", "Other: bribes", " misc ", "lst reserve",
      "Otherwise", "Others", "Other:", " " }

\* discord_bot.py:159
valid_categories ==
    { "LST Reserve", "Server Payment", "vSOL Transfer", "Team Payout", "Other" }

RECURSIVE lstrip(_)
lstrip(text) ==
    IF Len(text) > 0 /\ SubSeq(text, 1, 1) = " "
    THEN lstrip(SubSeq(text, 2, Len(text)))
    ELSE text

RECURSIVE rstrip(_)
rstrip(text) ==
    IF Len(text) > 0 /\ SubSeq(text, Len(text), Len(text)) = " "
    THEN rstrip(SubSeq(text, 1, Len(text) - 1))
    ELSE text

\* str.strip(), for blanks
strip(text) == rstrip(lstrip(text))

\* str.startswith
startswith(text, prefix) ==
    Len(text) >= Len(prefix) /\ SubSeq(text, 1, Len(prefix)) = prefix

\* discord_bot.py:160-165
category_val(text) ==
    IF strip(text) \notin valid_categories /\ ~ startswith(strip(text), "Other")
    THEN "Other: " \o strip(text)
    ELSE strip(text)

\* discord_bot.py:101-104: the messages and the channel the modal was given;
\* FALSE where the reference is None
Sessions ==
    [ user_command_message : BOOLEAN, bot_form_message : BOOLEAN,
      original_channel : BOOLEAN ]

\* a request to Discord returns, or raises
CleanupOutcomes == { "ok", "raise" }

\* the awaits of the success path, in the order of the code
CleanupRank(pos) ==
    IF pos = "followup_logged" THEN 0
    ELSE IF pos = "delete_command" THEN 1
    ELSE IF pos = "delete_form" THEN 2
    ELSE 3

\* discord_bot.py:191-227: the await the success path reaches after the one
\* at pos: the next clean-up step whose reference the modal holds, "none"
\* when the handler is through
cleanup_after(sess, pos) ==
    IF CleanupRank(pos) < 1 /\ sess.user_command_message THEN "delete_command"
    ELSE IF CleanupRank(pos) < 2 /\ sess.bot_form_message THEN "delete_form"
    ELSE IF CleanupRank(pos) < 3 /\ sess.original_channel THEN "new_form"
    ELSE "none"

\* discord_bot.py:137-140: a form is submitted; its handler takes the lowest
\* free slot and awaits interaction.response.defer
on_submit(k) ==
    /\ s_pc[k] = "none"
    /\ \A j \in 1..(k - 1) : s_pc[j] # "none"
    /\ \E sess \in Sessions : session' = [session EXCEPT ![k] = Some(sess)]
    /\ s_pc' = [s_pc EXCEPT ![k] = "defer"]
    /\ submit_reply' = [submit_reply EXCEPT ![k] = "none"]
    /\ cleanup' = [cleanup EXCEPT ![k] = << >>]
    /\ UNCHANGED << ledgerVars, watcherVars, manualVars, sourceVars,
                    collectVars, volumeVars, alive >>

\* discord_bot.py:140-144: defer returned and get_current_epoch is awaited,
\* or defer raised, outside the try, and the handler is over
on_submit_deferred(k) ==
    /\ s_pc[k] = "defer"
    /\ \E defer \in CleanupOutcomes :
        s_pc' = [s_pc EXCEPT ![k] = IF defer = "ok" THEN "epoch" ELSE "none"]
    /\ UNCHANGED << session, submit_reply, cleanup, ledgerVars, watcherVars,
                    manualVars, sourceVars, collectVars, volumeVars, alive >>

\* discord_bot.py:144-156: the epoch is read, the amount is refused and the
\* followup that says so is awaited
on_submit_invalid_amount(k, amount) ==
    /\ s_pc[k] = "epoch"
    /\ ~ amount_valid(amount)
    /\ s_pc' = [s_pc EXCEPT ![k] = "followup_invalid"]
    /\ UNCHANGED << session, submit_reply, cleanup, ledgerVars, watcherVars,
                    manualVars, sourceVars, collectVars, volumeVars, alive >>

\* mutant: the handler stores the epoch it read in the global
on_submit_log_expense_sets_epoch(k, amount, category) ==
    /\ s_pc[k] = "epoch"
    /\ l_pc[k] = "idle"
    /\ calls < MaxCalls
    /\ amount_valid(amount)
    /\ \E r \in get_current_epoch :
        /\ current_epoch' = r
        /\ user_data' = [user_data EXCEPT ![k] =
                            Some([ category |-> category_val(category),
                                   amount |-> amount.str, epoch |-> r ])]
    /\ calls' = calls + 1
    /\ call_no' = [call_no EXCEPT ![k] = calls + 1]
    /\ sheets_result' = [sheets_result EXCEPT ![k] = None]
    /\ discord_result' = [discord_result EXCEPT ![k] = None]
    /\ result' = [result EXCEPT ![k] = None]
    /\ l_pc' = [l_pc EXCEPT ![k] = "sheets"]
    /\ s_pc' = [s_pc EXCEPT ![k] = "log_expense"]
    /\ UNCHANGED << service, sheet_headers, sheet_rows, outgoings, appended,
                    header_reads, header_calls, served, row1, detached >>
    /\ UNCHANGED << session, submit_reply, cleanup >>
    /\ UNCHANGED << w_pc, new_epoch, post_result, reads, published, post_epoch, epoch_window >>
    /\ UNCHANGED << manualVars, sourceVars, collectVars, volumeVars, alive >>

\* discord_bot.py:144-178: the epoch is read into a local, the entry is built
\* and log_expense is called
on_submit_log_expense(k, amount, category) ==
    /\ s_pc[k] = "epoch"
    /\ l_pc[k] = "idle"
    /\ calls < MaxCalls
    /\ amount_valid(amount)
    /\ \E r \in get_current_epoch :
        user_data' = [user_data EXCEPT ![k] =
                            Some([ category |-> category_val(category),
                                   amount |-> amount.str, epoch |-> r ])]
    /\ calls' = calls + 1
    /\ call_no' = [call_no EXCEPT ![k] = calls + 1]
    /\ sheets_result' = [sheets_result EXCEPT ![k] = None]
    /\ discord_result' = [discord_result EXCEPT ![k] = None]
    /\ result' = [result EXCEPT ![k] = None]
    /\ l_pc' = [l_pc EXCEPT ![k] = "sheets"]
    /\ s_pc' = [s_pc EXCEPT ![k] = "log_expense"]
    /\ UNCHANGED << service, sheet_headers, sheet_rows, outgoings, appended,
                    header_reads, header_calls, served, row1, detached >>
    /\ UNCHANGED << session, submit_reply, cleanup >>
    /\ UNCHANGED << watcherVars, manualVars, sourceVars, collectVars, volumeVars, alive >>

\* mutant: the form is cleaned up whatever log_expense returned
on_submit_reply_cleans_always(k) ==
    /\ s_pc[k] = "log_expense"
    /\ l_pc[k] = "idle"
    /\ s_pc' = [s_pc EXCEPT ![k] = IF result[k] = None THEN "followup_error" ELSE "followup_logged"]
    /\ UNCHANGED << session, submit_reply, cleanup, ledgerVars, watcherVars,
                    manualVars, sourceVars, collectVars, volumeVars, alive >>

\* discord_bot.py:178-189,228-237: log_expense is over.  On success the
\* "logged" followup is awaited, on failure the "try again" one; when
\* log_expense raised, the except at 235 awaits the followup of line 237
on_submit_reply(k) ==
    /\ s_pc[k] = "log_expense"
    /\ l_pc[k] = "idle"
    /\ s_pc' = [s_pc EXCEPT ![k] =
                  IF result[k] = None THEN "followup_error"
                  ELSE IF result[k][1].success THEN "followup_logged"
                  ELSE "followup_retry"]
    /\ UNCHANGED << session, submit_reply, cleanup, ledgerVars, watcherVars,
                    manualVars, sourceVars, collectVars, volumeVars, alive >>

\* the message each followup carries
followup_message(pos) ==
    IF pos = "followup_invalid" THEN "invalid_amount"
    ELSE IF pos = "followup_logged" THEN "logged"
    ELSE IF pos = "followup_retry" THEN "try_again"
    ELSE "unexpected_error"

\* discord_bot.py:152-156,181-189,229-233 with 235-237: a followup of the try
\* block returned or raised.  After the "logged" one the clean-up starts;
\* after the other two the handler is through; one that raised takes the
\* handler to the except at 235, which awaits the followup of line 237
on_submit_followup(k) ==
    /\ s_pc[k] \in { "followup_invalid", "followup_logged", "followup_retry" }
    /\ \E send \in CleanupOutcomes :
        IF send = "ok"
        THEN /\ submit_reply' = [submit_reply EXCEPT ![k] = followup_message(s_pc[k])]
             /\ s_pc' = [s_pc EXCEPT ![k] =
                           IF s_pc[k] = "followup_logged"
                           THEN cleanup_after(session[k][1], s_pc[k])
                           ELSE "none"]
        ELSE /\ s_pc' = [s_pc EXCEPT ![k] = "followup_error"]
             /\ UNCHANGED submit_reply
    /\ UNCHANGED << session, cleanup, ledgerVars, watcherVars, manualVars,
                    sourceVars, collectVars, volumeVars, alive >>

\* discord_bot.py:193-227: a delete or the send of the new form returned, or
\* raised and was caught by the except of its own step; the next step follows
on_submit_cleanup(k) ==
    /\ s_pc[k] \in { "delete_command", "delete_form", "new_form" }
    /\ \E outcome \in CleanupOutcomes :
        cleanup' = [cleanup EXCEPT ![k] =
                      Append(cleanup[k], [step |-> s_pc[k], done |-> outcome = "ok"])]
    /\ s_pc' = [s_pc EXCEPT ![k] = cleanup_after(session[k][1], s_pc[k])]
    /\ UNCHANGED << session, submit_reply, ledgerVars, watcherVars,
                    manualVars, sourceVars, collectVars, volumeVars, alive >>

\* discord_bot.py:235-240: the followup of the except block returned, or
\* raised; nothing catches it there, and the handler is over either way
on_submit_error_followup(k) ==
    /\ s_pc[k] = "followup_error"
    /\ \E send \in CleanupOutcomes :
        submit_reply' = [submit_reply EXCEPT ![k] =
                           IF send = "ok" THEN followup_message(s_pc[k])
                           ELSE submit_reply[k]]
    /\ s_pc' = [s_pc EXCEPT ![k] = "none"]
    /\ UNCHANGED << session, cleanup, ledgerVars, watcherVars, manualVars,
                    sourceVars, collectVars, volumeVars, alive >>

LedgerStart(headers) ==
    /\ service = "none"
    /\ sheet_headers = headers
    /\ sheet_rows = << >>
    /\ outgoings = << >>
    /\ l_pc = [k \in Slots |-> "idle"]
    /\ served = [k \in Slots |-> FALSE]
    /\ call_no = [k \in Slots |-> 0]
    /\ row1 = [k \in Slots |-> None]
    /\ user_data = [k \in Slots |-> None]
    /\ sheets_result = [k \in Slots |-> None]
    /\ discord_result = [k \in Slots |-> None]
    /\ result = [k \in Slots |-> None]
    /\ calls = 0
    /\ appended = { }
    /\ header_reads = 0
    /\ header_calls = << >>
    /\ detached = { }
    /\ s_pc = [k \in Slots |-> "none"]
    /\ session = [k \in Slots |-> None]
    /\ submit_reply = [k \in Slots |-> "none"]
    /\ cleanup = [k \in Slots |-> << >>]

(***************************************************************************)
(* test_update: the "!test" command.  It runs post_update once, outside    *)
(* the watcher's loop.  The call goes on await by await (post_update_call_ *)
(* actions below); the command ends with the ctx.send that follows the     *)
(* call's return (test_update_complete).                                   *)
(***************************************************************************)
\* discord_bot.py:560-561: the first ctx.send raises and the command ends there
test_update_send_failed ==
    /\ c_pc = "none"
    /\ manual_result = "none"
    /\ manual_inp # None
    /\ manual_result' = "not_run"
    /\ UNCHANGED << manual_inp, manual_embed, watcherVars, ledgerVars >>
    /\ UNCHANGED << sourceVars, collectVars, submitVars, volumeVars, alive >>

\* discord_bot.py:560-562 with 384-396: the first ctx.send returned;
\* post_update is called and runs up to the await of app.extract
test_update_run ==
    /\ c_pc = "none"
    /\ manual_inp # None
    /\ manual_result = "none"
    /\ c_pc' = "extract"
    /\ started' = started \cup { "scrape" }
    /\ UNCHANGED << finished, manualVars, watcherVars, ledgerVars, sourceVars,
                    submitVars, volumeVars, alive >>

\* discord_bot.py:564-565: the command came from another channel
test_update_refused ==
    /\ c_pc = "none"
    /\ manual_result = "none"
    /\ manual_inp # None
    /\ manual_result' = "refused"
    /\ UNCHANGED << manual_inp, manual_embed, watcherVars, ledgerVars >>
    /\ UNCHANGED << sourceVars, collectVars, submitVars, volumeVars, alive >>

ManualStart(inp) ==
    /\ manual_inp = inp
    /\ manual_result = "none"
    /\ manual_embed = None

(***************************************************************************)
(* firecrawl_api: the two scrape requests made with requests.post.  A JSON *)
(* value is kept as its kind and, for an object, its keys; "absent" is a   *)
(* key the enclosing object does not have.                                 *)
(***************************************************************************)
Json(kind) == [kind |-> kind, keys |-> { }]
JsonDict(keys) == [kind |-> "dict", keys |-> keys]

\* Python's truth value of what dict.get returned
truthy(v) ==
    \/ v.kind \in { "true", "text" }
    \/ v.kind = "dict" /\ v.keys # { }

\* the body of a response: not JSON, a JSON list, or an object.  Under 'data'
\* the object holds nothing, null, a string, or an object with or without
\* 'json'.
FirecrawlBodies ==
    LET FirecrawlDataValues ==
            { [kind |-> k, json |-> Json("absent")] : k \in { "absent", "null", "text" } }
            \cup { [kind |-> "dict", json |-> j] :
                     j \in { Json("absent"), Json("null"), Json("text"), JsonDict({ }),
                             JsonDict({ "leader_rewards", "commission" }) } }
    IN
    { [kind |-> k, success |-> Json("absent"), data |-> [kind |-> "absent", json |-> Json("absent")]] :
        k \in { "not_json", "list" } }
    \cup { [kind |-> "object", success |-> sc, data |-> d] :
             sc \in { Json("absent"), Json("false"), Json("true") }, d \in FirecrawlDataValues }

\* what requests.post does: it raises, or a response arrives
FirecrawlHttpAnswers ==
    { [kind |-> k, status |-> 0,
       body |-> [kind |-> "not_json", success |-> Json("absent"),
                 data |-> [kind |-> "absent", json |-> Json("absent")]]] :
        k \in { "unreachable", "timeout" } }
    \cup { [kind |-> "response", status |-> st, body |-> b] :
             st \in { 200, 402, 500 }, b \in FirecrawlBodies }

\* firecrawl_api.py:19-44: the try block, to the exception it raises or the
\* value it returns.  response.json() raises on a body that is not JSON; .get
\* raises AttributeError on a list, on None and on a string; 'and' does not
\* look at 'data' when 'success' is false or missing.
scrape_try(answer) ==
    IF answer.kind # "response"
    THEN [raised |-> TRUE, value |-> Json("null"), printed |-> << >>]
    ELSE IF answer.status # 200
    THEN [raised |-> FALSE, value |-> JsonDict({ }),
          printed |-> << "Error: Non-200 status code" >>]
    ELSE IF answer.body.kind # "object"
    THEN [raised |-> TRUE, value |-> Json("null"), printed |-> << >>]
    ELSE IF ~ truthy(answer.body.success)
    THEN [raised |-> FALSE, value |-> JsonDict({ }), printed |-> << "Error in response" >>]
    ELSE IF answer.body.data.kind \in { "null", "text" }
    THEN [raised |-> TRUE, value |-> Json("null"), printed |-> << >>]
    ELSE IF answer.body.data.kind = "dict" /\ truthy(answer.body.data.json)
    THEN [raised |-> FALSE, value |-> answer.body.data.json, printed |-> << >>]
    ELSE [raised |-> FALSE, value |-> JsonDict({ }), printed |-> << "Error in response" >>]

\* mutant: the request is made without the try block
fetch_epoch_data_unguarded(answer) == scrape_try(answer)

\* firecrawl_api.py:4-48: "except Exception" returns {}
fetch_epoch_data(answer) ==
    IF scrape_try(answer).raised
    THEN [raised |-> FALSE, value |-> JsonDict({ }), printed |-> << "Error making request" >>]
    ELSE scrape_try(answer)

\* firecrawl_api.py:50-94: the same code with another prompt
fetch_token_data(answer) ==
    IF scrape_try(answer).raised
    THEN [raised |-> FALSE, value |-> JsonDict({ }), printed |-> << "Error making request" >>]
    ELSE scrape_try(answer)

(***************************************************************************)
(* One call of a source client, as its caller sees it: whether an          *)
(* exception came out of the call, and the value returned otherwise.       *)
(***************************************************************************)
SourceCalls ==
    { [source |-> f, answer |-> a] :
        f \in { "fetch_epoch_data", "fetch_token_data" }, a \in FirecrawlHttpAnswers }
    \cup { [source |-> "scrape", answer |-> a] : a \in ScrapeAnswers }
    \cup { [source |-> "wallet", answer |-> a] : a \in WalletFeeds }
    \cup { [source |-> "apy", answer |-> a] : a \in ApyAnswers }
    \cup { [source |-> f, answer |-> a] :
             f \in { "discord_bot.get_current_epoch", "SolanaRPC.get_current_epoch",
                     "solana_helper.get_current_epoch" },
             a \in EpochAnswers }
    \cup { [source |-> f, answer |-> [kind |-> "bad_result", epoch |-> None]] :
             f \in { "SolanaRPC.get_current_epoch", "solana_helper.get_current_epoch" } }

\* firecrawl_api.py:4-48
call_fetch_epoch_data ==
    /\ src_call # None
    /\ src_result = None
    /\ src_call[1].source = "fetch_epoch_data"
    /\ src_result' = Some(fetch_epoch_data(src_call[1].answer))
    /\ UNCHANGED << src_call, watcherVars, ledgerVars, manualVars, collectVars, submitVars, volumeVars, alive >>

\* firecrawl_api.py:50-94
call_fetch_token_data ==
    /\ src_call # None
    /\ src_result = None
    /\ src_call[1].source = "fetch_token_data"
    /\ src_result' = Some(fetch_token_data(src_call[1].answer))
    /\ UNCHANGED << src_call, watcherVars, ledgerVars, manualVars, collectVars, submitVars, volumeVars, alive >>

\* discord_bot.py:396-409
call_extract ==
    /\ src_call # None
    /\ src_result = None
    /\ src_call[1].source = "scrape"
    /\ src_result' = Some([ raised |-> extract(src_call[1].answer).kind = "raise",
                            value |-> extract(src_call[1].answer),
                            printed |-> << >> ])
    /\ UNCHANGED << src_call, watcherVars, ledgerVars, manualVars, collectVars, submitVars, volumeVars, alive >>

\* discord_bot.py:426
call_get_wallet_balances ==
    /\ src_call # None
    /\ src_result = None
    /\ src_call[1].source = "wallet"
    /\ src_result' = Some([ raised |-> FALSE,
                            value |-> get_wallet_balances(src_call[1].answer),
                            printed |-> wallet_printed(src_call[1].answer) ])
    /\ UNCHANGED << src_call, watcherVars, ledgerVars, manualVars, collectVars, submitVars, volumeVars, alive >>

\* discord_bot.py:429
call_get_sanctum_apy ==
    /\ src_call # None
    /\ src_result = None
    /\ src_call[1].source = "apy"
    /\ src_result' = Some([ raised |-> FALSE,
                            value |-> get_sanctum_apy(src_call[1].answer),
                            printed |-> sanctum_printed(src_call[1].answer) ])
    /\ UNCHANGED << src_call, watcherVars, ledgerVars, manualVars, collectVars, submitVars, volumeVars, alive >>

\* discord_bot.py:276-288
call_discord_bot_get_current_epoch ==
    /\ src_call # None
    /\ src_result = None
    /\ src_call[1].source = "discord_bot.get_current_epoch"
    /\ src_result' = Some([ raised |-> FALSE,
                            value |-> discord_bot_get_current_epoch(src_call[1].answer),
                            printed |-> discord_bot_epoch_printed(src_call[1].answer) ])
    /\ UNCHANGED << src_call, watcherVars, ledgerVars, manualVars, collectVars, submitVars, volumeVars, alive >>

\* solana_helper.py:23-48
call_SolanaRPC_get_current_epoch ==
    /\ src_call # None
    /\ src_result = None
    /\ src_call[1].source = "SolanaRPC.get_current_epoch"
    /\ src_result' = Some([ raised |-> FALSE,
                            value |-> SolanaRPC_get_current_epoch(src_call[1].answer),
                            printed |-> SolanaRPC_epoch_printed(src_call[1].answer) ])
    /\ UNCHANGED << src_call, watcherVars, ledgerVars, manualVars, collectVars, submitVars, volumeVars, alive >>

\* solana_helper.py:80-83
call_solana_helper_get_current_epoch ==
    /\ src_call # None
    /\ src_result = None
    /\ src_call[1].source = "solana_helper.get_current_epoch"
    /\ src_result' = Some([ raised |-> FALSE,
                            value |-> solana_helper_get_current_epoch(src_call[1].answer),
                            printed |-> SolanaRPC_epoch_printed(src_call[1].answer) ])
    /\ UNCHANGED << src_call, watcherVars, ledgerVars, manualVars, collectVars, submitVars, volumeVars, alive >>

(***************************************************************************)
(* post_update, await by await: each step runs from one await to the next. *)
(* The call is the "!test" command's (test_update_run started it), so its  *)
(* answers are manual_inp and its outcome goes to manual_result and        *)
(* manual_embed.                                                           *)
(***************************************************************************)
\* discord_bot.py:396-426: app.extract returns or raises; unless it raised,
\* get_wallet_balances is called and awaited
post_update_call_wallet ==
    /\ c_pc = "extract"
    /\ finished' = finished \cup { "scrape" }
    /\ LET step == post_update_resume(c_pc, manual_inp[1])
       IN  /\ c_pc' = step.pc
           /\ manual_result' = IF step.pc = "done" THEN step.result ELSE manual_result
           /\ started' = IF step.pc = "wallet" THEN started \cup { "wallet" } ELSE started
    /\ UNCHANGED << manual_inp, manual_embed, watcherVars, ledgerVars, sourceVars,
                    submitVars, volumeVars, alive >>

\* discord_bot.py:426-429: get_wallet_balances returns; get_sanctum_apy is
\* called and awaited
post_update_call_apy ==
    /\ c_pc = "wallet"
    /\ finished' = finished \cup { "wallet" }
    /\ started' = started \cup { "apy" }
    /\ c_pc' = post_update_resume(c_pc, manual_inp[1]).pc
    /\ UNCHANGED << manualVars, watcherVars, ledgerVars, sourceVars, submitVars, volumeVars, alive >>

\* discord_bot.py:429-460: get_sanctum_apy returns; without a channel the
\* call ends, with one the epoch is read for the embed
post_update_call_epoch ==
    /\ c_pc = "apy"
    /\ finished' = finished \cup { "apy" }
    /\ LET step == post_update_resume(c_pc, manual_inp[1])
       IN  /\ c_pc' = step.pc
           /\ manual_result' = IF step.pc = "done" THEN step.result ELSE manual_result
    /\ UNCHANGED << started, manual_inp, manual_embed, watcherVars, ledgerVars,
                    sourceVars, submitVars, volumeVars, alive >>

\* discord_bot.py:460-516: the embed is built; a field that cannot be
\* formatted ends the call, otherwise channel.send is called and awaited
post_update_call_send ==
    /\ c_pc = "epoch"
    /\ LET step == post_update_resume(c_pc, manual_inp[1])
       IN  /\ c_pc' = step.pc
           /\ manual_result' = IF step.pc = "done" THEN step.result ELSE manual_result
           /\ manual_embed' = IF step.pc = "send" THEN Some(post_update_embed(manual_inp[1]))
                               ELSE manual_embed
    /\ UNCHANGED << started, finished, manual_inp, watcherVars, ledgerVars,
                    sourceVars, submitVars, volumeVars, alive >>

\* discord_bot.py:516-531: channel.send returns or raises
post_update_return ==
    /\ c_pc = "send"
    /\ LET step == post_update_resume(c_pc, manual_inp[1])
       IN  /\ c_pc' = step.pc
           /\ manual_result' = step.result
    /\ UNCHANGED << started, finished, manual_inp, manual_embed, watcherVars,
                    ledgerVars, sourceVars, submitVars, volumeVars, alive >>

\* discord_bot.py:562: post_update returned; the closing ctx.send returns or
\* raises, and the command is over either way
test_update_complete ==
    /\ c_pc = "done"
    /\ c_pc' = "complete"
    /\ UNCHANGED << started, finished, manualVars, watcherVars, ledgerVars,
                    sourceVars, submitVars, volumeVars, alive >>

(***************************************************************************)
(* signal_handler: SIGINT.  The handler runs on top of whatever the main   *)
(* thread is doing.  run_until_complete on the running loop raises         *)
(* RuntimeError; when the loop is waiting that error unwinds the loop and  *)
(* every task is cancelled where it is suspended (were the call to         *)
(* succeed, bot.close() and sys.exit(0) end the tasks the same way).  When *)
(* the error is raised inside a task that is executing, it is an exception *)
(* of the line the task is at: the innermost try around that line catches  *)
(* it, and without one it leaves the coroutine.  A request that            *)
(* asyncio.to_thread has handed to a worker thread is not taken back: the  *)
(* thread runs it, and the far end carries it out, at any later time.      *)
(***************************************************************************)
\* discord_bot.py:68-74: the process ends; no suspended coroutine resumes.
\* An update or append that is with a worker thread stays with it: the
\* threads are waited for as the interpreter ends
signal_handler ==
    /\ alive
    /\ alive' = FALSE
    /\ detached' = detached
                    \cup { Request(k, 0) :
                             k \in { j \in Slots : /\ l_pc[j] \in { "header_update", "append" }
                                                    /\ ~ served[j] } }
    /\ UNCHANGED << service, sheet_headers, sheet_rows, outgoings, l_pc, user_data,
                    sheets_result, discord_result, result, calls, appended,
                    header_reads, header_calls, served, call_no, row1 >>
    /\ UNCHANGED << watcherVars, manualVars, sourceVars, collectVars,
                    submitVars, volumeVars >>

\* discord_bot.py:71 raised inside the log_expense call of slot k, which is
\* executing or which a returned request has just resumed
signal_handler_caught(k) ==
    /\ alive
    /\ \/ \* expense_handler.py:118-127,130-153,156-160 with 169-175: in
          \* log_to_google_sheets, before or after the header check, or once
          \* the append has returned.  Lines 56 and 113: in the except block
          \* of initialize after the build raised, or of
          \* setup_headers_if_needed after its read or update raised; the
          \* error leaves that method, which returns nothing, and is caught
          \* at line 169 as well
          /\ \/ l_pc[k] \in { "sheets", "row", "build" }
             \/ l_pc[k] = "append" /\ served[k]
             \/ l_pc[k] \in { "header_get", "header_update" } /\ ~ served[k]
          /\ sheets_result' = [sheets_result EXCEPT ![k] = Some(Failure(SheetsError))]
          /\ l_pc' = [l_pc EXCEPT ![k] = "discord"]
          /\ served' = [served EXCEPT ![k] = FALSE]
          /\ UNCHANGED << service, sheet_headers, sheet_rows, outgoings,
                          user_data, discord_result, result, calls, appended,
                          header_reads, header_calls, call_no, row1, detached >>
       \/ \* expense_handler.py:30-46 with 55-57 and 120-124: in initialize,
          \* before the build is issued, or inside asyncio.to_thread once
          \* the build is with its worker thread: what the thread builds is
          \* assigned to nothing and initialize returns False
          /\ \/ l_pc[k] = "sheets" /\ service = "none"
             \/ l_pc[k] = "build"
          /\ sheets_result' = [sheets_result EXCEPT ![k] = Some(Failure(SheetsInitFailed))]
          /\ l_pc' = [l_pc EXCEPT ![k] = "discord"]
          /\ UNCHANGED << service, sheet_headers, sheet_rows, outgoings, user_data,
                          discord_result, result, calls, appended,
                          header_reads, header_calls, served, call_no, row1, detached >>
       \/ \* expense_handler.py:46-57: in initialize, once the build has
          \* returned: self.service is assigned and initialize returns False
          /\ l_pc[k] = "build"
          /\ service' = "built"
          /\ sheets_result' = [sheets_result EXCEPT ![k] = Some(Failure(SheetsInitFailed))]
          /\ l_pc' = [l_pc EXCEPT ![k] = "discord"]
          /\ UNCHANGED << sheet_headers, sheet_rows, outgoings, user_data,
                          discord_result, result, calls, appended,
                          header_reads, header_calls, served, call_no, row1, detached >>
       \/ \* expense_handler.py:61-74,107-110 with 112-114: in
          \* setup_headers_if_needed, before the read of row 1 is issued,
          \* inside asyncio.to_thread once the read is with its worker
          \* thread, or once the read or the update has returned: the check
          \* returns False and the call goes on to the append
          /\ \/ l_pc[k] = "sheets" /\ service = "built"
             \/ l_pc[k] = "header_get"
             \/ l_pc[k] = "header_update" /\ served[k]
          /\ header_calls' =
               Append(header_calls,
                      [ok |-> FALSE, wrote |-> l_pc[k] = "header_update" /\ served[k]])
          /\ l_pc' = [l_pc EXCEPT ![k] = "row"]
          /\ served' = [served EXCEPT ![k] = FALSE]
          /\ row1' = [row1 EXCEPT ![k] = None]
          /\ UNCHANGED << service, sheet_headers, sheet_rows, outgoings,
                          user_data, sheets_result, discord_result, result,
                          calls, appended, header_reads, call_no, detached >>
       \/ \* expense_handler.py:107 with 112-114: inside asyncio.to_thread,
          \* once the update of row 1 is with its worker thread and before
          \* the coroutine is suspended: the check returns False, the call
          \* goes on to the append, and the thread still runs the update
          /\ l_pc[k] = "header_update"
          /\ ~ served[k]
          /\ header_calls' = Append(header_calls, [ok |-> FALSE, wrote |-> FALSE])
          /\ detached' = detached \cup { Request(k, Len(header_calls) + 1) }
          /\ l_pc' = [l_pc EXCEPT ![k] = "row"]
          /\ UNCHANGED << service, sheet_headers, sheet_rows, outgoings,
                          user_data, sheets_result, discord_result, result,
                          calls, appended, header_reads, served, call_no, row1 >>
       \/ \* expense_handler.py:154 with 169-175: inside asyncio.to_thread,
          \* once the append is with its worker thread and before the
          \* coroutine is suspended: the error is caught at line 169 and the
          \* thread still runs the append
          /\ l_pc[k] = "append"
          /\ ~ served[k]
          /\ sheets_result' = [sheets_result EXCEPT ![k] = Some(Failure(SheetsError))]
          /\ detached' = detached \cup { Request(k, 0) }
          /\ l_pc' = [l_pc EXCEPT ![k] = "discord"]
          /\ UNCHANGED << service, sheet_headers, sheet_rows, outgoings,
                          user_data, discord_result, result, calls, appended,
                          header_reads, header_calls, served, call_no, row1 >>
       \/ \* expense_handler.py:180-217 with 226-232: in post_to_discord's
          \* try block, before channel.send is issued or once it has returned
          /\ l_pc[k] = "discord" \/ (l_pc[k] = "send" /\ served[k])
          /\ discord_result' = [discord_result EXCEPT ![k] = Some(Failure(DiscordError))]
          /\ l_pc' = [l_pc EXCEPT ![k] = "return"]
          /\ served' = [served EXCEPT ![k] = FALSE]
          /\ UNCHANGED << service, sheet_headers, sheet_rows, outgoings,
                          user_data, sheets_result, result, calls, appended,
                          header_reads, header_calls, call_no, row1, detached >>
       \/ \* expense_handler.py:250-272: in log_expense itself, which has no
          \* try (as the call starts, between its two awaits, or after
          \* them), at the entry of log_to_google_sheets or post_to_discord
          \* before their try, or in the except block of one of them (lines
          \* 164, 171, 221, 228) after the append or channel.send raised:
          \* the error leaves log_expense and nothing is returned
          /\ \/ l_pc[k] \in { "sheets", "discord", "return" }
             \/ l_pc[k] \in { "append", "send" } /\ ~ served[k]
          /\ l_pc' = [l_pc EXCEPT ![k] = "idle"]
          /\ UNCHANGED << service, sheet_headers, sheet_rows, outgoings,
                          user_data, sheets_result, discord_result, result,
                          calls, appended, header_reads, header_calls,
                          served, call_no, row1, detached >>
    /\ UNCHANGED besideLedger

(***************************************************************************)
(* The volume field of one report, and format_volume called by itself.     *)
(***************************************************************************)
\* discord_bot.py:497-511
post_update_volume_val ==
    /\ vol_call # None
    /\ vol_call[1].fn = "post_update"
    /\ volume_val = None
    /\ volume_val' = Some(volume_val_of(vol_call[1].arg))
    /\ UNCHANGED << vol_call, volume_field >>
    /\ UNCHANGED << watcherVars, ledgerVars, manualVars, sourceVars, collectVars, submitVars, alive >>

\* discord_bot.py:513
post_update_format_volume ==
    /\ vol_call # None
    /\ volume_val # None
    /\ volume_field = None
    /\ volume_field' = Some(format_volume(volume_val[1]))
    /\ UNCHANGED << vol_call, volume_val >>
    /\ UNCHANGED << watcherVars, ledgerVars, manualVars, sourceVars, collectVars, submitVars, alive >>

\* discord_bot.py:43-55
call_format_volume ==
    /\ vol_call # None
    /\ vol_call[1].fn = "format_volume"
    /\ volume_field = None
    /\ volume_field' = Some(format_volume(vol_call[1].arg))
    /\ UNCHANGED << vol_call, volume_val >>
    /\ UNCHANGED << watcherVars, ledgerVars, manualVars, sourceVars, collectVars, submitVars, alive >>

VolumeStart(call) ==
    /\ vol_call = call
    /\ volume_val = None
    /\ volume_field = None

SourceStart(call) ==
    /\ src_call = call
    /\ src_result = None

CollectStart ==
    /\ c_pc = "none"
    /\ started = { }
    /\ finished = { }

(***************************************************************************)
(* Spec: the epoch watcher.  The ledger is at rest.                        *)
(***************************************************************************)
Init ==
    /\ \E window \in EpochWindows : WatcherStart(window)
    /\ LedgerStart(DesiredHeaders)
    /\ ManualStart(None)
    /\ SourceStart(None)
    /\ CollectStart
    /\ VolumeStart(None)
    /\ alive = TRUE

Next ==
    \/ check_epoch_read_failed
    \/ check_epoch_initial
    \/ check_epoch_detected
    \/ check_epoch_no_change
    \/ check_epoch_post_update
    \/ check_epoch_advance

Spec == Init /\ [][Next]_vars

(***************************************************************************)
(* SpecLedger: log_expense calls, one after the other, for every row 1 and *)
(* every outcome of every request.  The calls that are in flight together  *)
(* are SpecOverlap's.  The watcher is at rest.                             *)
(***************************************************************************)
InitLedger ==
    /\ WatcherStart(MinEpoch..MaxEpoch)
    /\ \E headers \in HeaderRows : LedgerStart(headers)
    /\ ManualStart(None)
    /\ SourceStart(None)
    /\ CollectStart
    /\ VolumeStart(None)
    /\ alive = TRUE

NextLedger ==
    \/ log_expense_call(1)
    \/ log_to_google_sheets_init_failed(1)
    \/ initialize(1)
    \/ initialize_built(1)
    \/ setup_headers_if_needed_get(1)
    \/ values_get(1)
    \/ setup_headers_if_needed_checked(1)
    \/ values_update(1)
    \/ setup_headers_if_needed_return(1)
    \/ log_to_google_sheets_append(1)
    \/ values_append(1)
    \/ log_to_google_sheets_return(1)
    \/ post_to_discord(1)
    \/ channel_send(1)
    \/ post_to_discord_return(1)
    \/ log_expense_return(1)
    \/ test_connection

SpecLedger == InitLedger /\ [][NextLedger]_vars

(***************************************************************************)
(* SpecOverlap: log_expense calls that are in flight together, up to one   *)
(* per slot, each with the same entry, on a sheet whose row 1 needs the    *)
(* repair.  The service can be built, the read of row 1 answers and the    *)
(* channel is there; the update, the append and the send are carried out   *)
(* or raise.                                                               *)
(***************************************************************************)
OverlapEntry == [ category |-> "LST Reserve", amount |-> "125.5", epoch |-> Some(MinEpoch) ]

InitOverlap ==
    /\ WatcherStart(MinEpoch..MaxEpoch)
    /\ LedgerStart(LegacyHeaders)
    /\ ManualStart(None)
    /\ SourceStart(None)
    /\ CollectStart
    /\ VolumeStart(None)
    /\ alive = TRUE

NextOverlap ==
    \/ \E k \in Slots :
        log_expense_call(k) /\ user_data'[k] = Some(OverlapEntry)
    \/ \E k \in Slots : initialize(k)
    \/ \E k \in Slots : initialize_built(k)
    \/ \E k \in Slots : setup_headers_if_needed_get(k)
    \/ \E k \in Slots : values_get(k)
    \/ \E k \in Slots : served[k] /\ setup_headers_if_needed_checked(k)
    \/ \E k \in Slots : values_update(k)
    \/ \E k \in Slots : setup_headers_if_needed_return(k)
    \/ \E k \in Slots : log_to_google_sheets_append(k)
    \/ \E k \in Slots : values_append(k)
    \/ \E k \in Slots : log_to_google_sheets_return(k)
    \/ \E k \in Slots : post_to_discord(k) /\ l_pc'[k] = "send"
    \/ \E k \in Slots : channel_send(k)
    \/ \E k \in Slots : post_to_discord_return(k)
    \/ \E k \in Slots : log_expense_return(k)

SpecOverlap == InitOverlap /\ [][NextOverlap]_vars

(***************************************************************************)
(* SpecReport: one "!test" command, its post_update call going on await by *)
(* await, for every combination of answers of the outside world.           *)
(***************************************************************************)
InitReport ==
    /\ WatcherStart(MinEpoch..MaxEpoch)
    /\ LedgerStart(DesiredHeaders)
    /\ \E inp \in PostInputs : ManualStart(Some(inp))
    /\ SourceStart(None)
    /\ CollectStart
    /\ VolumeStart(None)
    /\ alive = TRUE

NextReport ==
    \/ test_update_send_failed
    \/ test_update_run
    \/ test_update_refused
    \/ post_update_call_wallet
    \/ post_update_call_apy
    \/ post_update_call_epoch
    \/ post_update_call_send
    \/ post_update_return
    \/ test_update_complete

SpecReport == InitReport /\ [][NextReport]_vars

(***************************************************************************)
(* SpecBot: the watcher's ticks, expense submissions and the "!test"       *)
(* command, interleaved at every await.  The store service is built, the   *)
(* sheet's row 1 is in order and its read answers, the append is carried   *)
(* out and the channel is there; the failures of these are SpecLedger's.   *)
(* The modal holds its two messages and its channel, and defer, the        *)
(* followups and the clean-up requests return; the other sessions are      *)
(* SpecSession's.  The epoch post_update reads for the embed is the one    *)
(* the tick read; the other answers are Spec's.                            *)
(***************************************************************************)
\* The event loop runs one coroutine at a time, from the await it resumes at
\* to the next one.  A coroutine is running when it is past an await and has
\* not reached the next: a log_expense call about to enter one of its two
\* writes or to return, or on_submit about to take its result; the watcher
\* about to assign current_epoch.  No other coroutine takes a step then.
LedgerRunning ==
    \E k \in Slots :
        \/ l_pc[k] \in { "sheets", "row", "discord", "return" }
        \/ s_pc[k] = "log_expense" /\ l_pc[k] = "idle"
WatcherRunning == w_pc = "posted"
Running == LedgerRunning \/ WatcherRunning

\* a modal that holds its two messages and its channel
FullSession ==
    [ user_command_message |-> TRUE, bot_form_message |-> TRUE, original_channel |-> TRUE ]

\* what the outside world answers to the "!test" command's post_update call
BotReport ==
    [ channel |-> "ok", firecrawl |-> [kind |-> "data", data |-> AllOf("num")],
      wallet |-> "balances", apy |-> Some(PyFloat(82, 10)), epoch |-> Some(101),
      send |-> "ok" ]

InitBot ==
    /\ WatcherStart(100..101)
    /\ LedgerStart(DesiredHeaders)
    /\ ManualStart(Some(BotReport))
    /\ SourceStart(None)
    /\ CollectStart
    /\ VolumeStart(None)
    /\ alive = TRUE

NextBot ==
    \/ ~ LedgerRunning /\ Len(reads) < MaxTicks /\ check_epoch_read_failed
    \/ ~ LedgerRunning /\ Len(reads) < MaxTicks /\ check_epoch_initial
    \/ ~ LedgerRunning /\ Len(reads) < MaxTicks /\ check_epoch_detected
    \/ ~ LedgerRunning /\ Len(reads) < MaxTicks /\ check_epoch_no_change
    \/ ~ LedgerRunning /\ check_epoch_post_update
        /\ post_epoch' \in { None, Some(new_epoch) }
    \/ check_epoch_advance
    \/ ~ WatcherRunning /\ on_submit(1) /\ session'[1] = Some(FullSession)
    \/ ~ WatcherRunning /\ on_submit_deferred(1) /\ s_pc'[1] = "epoch"
    \/ ~ WatcherRunning
        /\ on_submit_invalid_amount(1, CHOOSE a \in AmountInputs : a.text = "abc")
    \/ ~ WatcherRunning /\ calls < MaxSubmits
        /\ on_submit_log_expense(1, CHOOSE a \in AmountInputs : a.text = "125.50",
                                 " misc ")
    \/ initialize(1)
    \/ ~ WatcherRunning /\ initialize_built(1)
    \/ setup_headers_if_needed_get(1)
    \/ values_get(1)
    \/ ~ WatcherRunning /\ setup_headers_if_needed_checked(1)
        /\ header_calls' = Append(header_calls, [ok |-> TRUE, wrote |-> FALSE])
    \/ log_to_google_sheets_append(1)
    \/ values_append(1)
    \/ ~ WatcherRunning /\ served[1] /\ log_to_google_sheets_return(1)
    \/ post_to_discord(1) /\ l_pc'[1] = "send"
    \/ channel_send(1)
    \/ ~ WatcherRunning /\ post_to_discord_return(1)
    \/ log_expense_return(1)
    \/ on_submit_reply(1)
    \/ ~ WatcherRunning /\ on_submit_followup(1) /\ s_pc'[1] # "followup_error"
    \/ ~ WatcherRunning /\ on_submit_cleanup(1) /\ cleanup'[1][Len(cleanup'[1])].done
    \/ ~ Running /\ test_update_send_failed
    \/ ~ Running /\ test_update_run
    \/ ~ Running /\ test_update_refused
    \/ ~ Running /\ post_update_call_wallet
    \/ ~ Running /\ post_update_call_apy
    \/ ~ Running /\ post_update_call_epoch
    \/ ~ Running /\ post_update_call_send
    \/ ~ Running /\ post_update_return
    \/ ~ Running /\ test_update_complete

SpecBot == InitBot /\ [][NextBot]_vars

(***************************************************************************)
(* SpecCollect: one post_update call that was started, await by await, for *)
(* every combination of answers of the outside world.                      *)
(***************************************************************************)
NextCollect ==
    \/ test_update_run
    \/ post_update_call_wallet
    \/ post_update_call_apy
    \/ post_update_call_epoch
    \/ post_update_call_send
    \/ post_update_return
    \/ test_update_complete

SpecCollect == InitReport /\ [][NextCollect]_vars

(***************************************************************************)
(* SpecShutdown: log_expense calls, with SIGINT arriving at any point.     *)
(***************************************************************************)
NextShutdown ==
    \/ alive /\ log_expense_call(1)
    \/ alive /\ log_to_google_sheets_init_failed(1)
    \/ alive /\ initialize(1)
    \/ alive /\ initialize_built(1)
    \/ alive /\ setup_headers_if_needed_get(1)
    \/ alive /\ values_get(1)
    \/ alive /\ setup_headers_if_needed_checked(1)
    \/ alive /\ values_update(1)
    \/ alive /\ setup_headers_if_needed_return(1)
    \/ alive /\ log_to_google_sheets_append(1)
    \/ alive /\ values_append(1)
    \/ alive /\ log_to_google_sheets_return(1)
    \/ alive /\ post_to_discord(1)
    \/ alive /\ channel_send(1)
    \/ alive /\ post_to_discord_return(1)
    \/ alive /\ log_expense_return(1)
    \/ alive /\ test_connection
    \/ signal_handler
    \/ signal_handler_caught(1)
    \/ request_execute

SpecShutdown == InitLedger /\ [][NextShutdown]_vars

(***************************************************************************)
(* SpecSources: one call of one source client, for everything the far end  *)
(* can do.                                                                 *)
(***************************************************************************)
InitSources ==
    /\ WatcherStart(MinEpoch..MaxEpoch)
    /\ LedgerStart(DesiredHeaders)
    /\ ManualStart(None)
    /\ \E call \in SourceCalls : SourceStart(Some(call))
    /\ CollectStart
    /\ VolumeStart(None)
    /\ alive = TRUE

NextSources ==
    \/ call_fetch_epoch_data
    \/ call_fetch_token_data
    \/ call_extract
    \/ call_get_wallet_balances
    \/ call_get_sanctum_apy
    \/ call_discord_bot_get_current_epoch
    \/ call_SolanaRPC_get_current_epoch
    \/ call_solana_helper_get_current_epoch

SpecSources == InitSources /\ [][NextSources]_vars

(***************************************************************************)
(* SpecSubmit: expense submissions, for everything the amount box and the  *)
(* category box can hold.                                                  *)
(***************************************************************************)
InitSubmit ==
    /\ WatcherStart(100..101)
    /\ LedgerStart(DesiredHeaders)
    /\ ManualStart(None)
    /\ SourceStart(None)
    /\ CollectStart
    /\ VolumeStart(None)
    /\ alive = TRUE

NextSubmit ==
    \/ on_submit(1) /\ session'[1] = Some(FullSession)
    \/ on_submit_deferred(1)
    \/ \E amount \in AmountInputs : on_submit_invalid_amount(1, amount)
    \/ \E amount \in AmountInputs, category \in CategoryInputs :
        calls < MaxSubmits /\ on_submit_log_expense(1, amount, category)
    \/ log_to_google_sheets_init_failed(1)
    \/ initialize(1)
    \/ initialize_built(1)
    \/ setup_headers_if_needed_get(1)
    \/ values_get(1)
    \/ setup_headers_if_needed_checked(1)
    \/ log_to_google_sheets_append(1)
    \/ values_append(1)
    \/ log_to_google_sheets_return(1)
    \/ post_to_discord(1)
    \/ channel_send(1)
    \/ post_to_discord_return(1)
    \/ log_expense_return(1)
    \/ on_submit_reply(1)
    \/ on_submit_followup(1)
    \/ on_submit_cleanup(1)
    \/ on_submit_error_followup(1)

SpecSubmit == InitSubmit /\ [][NextSubmit]_vars

(***************************************************************************)
(* SpecSession: expense-entry sessions from the submission of the modal to *)
(* the followup and the clean-up, for every modal (the references it       *)
(* holds) and every outcome of the store, the post and the clean-up        *)
(* requests.  The entry itself is fixed.                                   *)
(***************************************************************************)
NextSession ==
    \/ on_submit(1)
    \/ on_submit_deferred(1)
    \/ \E amount \in AmountInputs : on_submit_invalid_amount(1, amount)
    \/ calls < MaxSubmits
        /\ on_submit_log_expense(1, CHOOSE a \in AmountInputs : a.text = "125.50",
                                 "LST Reserve")
    \/ log_to_google_sheets_init_failed(1)
    \/ initialize(1)
    \/ initialize_built(1)
    \/ setup_headers_if_needed_get(1)
    \/ values_get(1)
    \/ setup_headers_if_needed_checked(1)
    \/ log_to_google_sheets_append(1)
    \/ values_append(1)
    \/ log_to_google_sheets_return(1)
    \/ post_to_discord(1)
    \/ channel_send(1)
    \/ post_to_discord_return(1)
    \/ log_expense_return(1)
    \/ on_submit_reply(1)
    \/ on_submit_followup(1)
    \/ on_submit_cleanup(1)
    \/ on_submit_error_followup(1)

SpecSession == InitSubmit /\ [][NextSession]_vars

(***************************************************************************)
(* SpecVolume: one use of the volume code, for every value of the field.   *)
(***************************************************************************)
InitVolume ==
    /\ WatcherStart(MinEpoch..MaxEpoch)
    /\ LedgerStart(DesiredHeaders)
    /\ ManualStart(None)
    /\ SourceStart(None)
    /\ CollectStart
    /\ \E call \in VolumeCalls : VolumeStart(Some(call))
    /\ alive = TRUE

NextVolume ==
    \/ post_update_volume_val
    \/ post_update_format_volume
    \/ call_format_volume

SpecVolume == InitVolume /\ [][NextVolume]_vars

(***************************************************************************)
(* Properties of the epoch watcher (Spec).                                 *)
(***************************************************************************)
Last(seq) == seq[Len(seq)]
Range(seq) == { seq[i] : i \in 1..Len(seq) }

\* a tick is a step that appends to reads; TickRead is what it read
Tick == w_pc = "idle" /\ Len(reads') = Len(reads) + 1
TickRead == Last(reads')

\* the successful reads before position i, and the positions whose read is
\* strictly greater than every earlier successful read (and has one)
GoodBefore(seq, i) == { seq[j][1] : j \in { k \in 1..(i - 1) : seq[k] # None } }
NewHighs(seq) ==
    { i \in 1..Len(seq) :
        /\ seq[i] # None
        /\ GoodBefore(seq, i) # { }
        /\ \A v \in GoodBefore(seq, i) : seq[i][1] > v }

\* the order of the awaits of a post_update call
AwaitRank(pc) ==
    IF pc = "extract" THEN 1 ELSE IF pc = "wallet" THEN 2 ELSE IF pc = "apy" THEN 3
    ELSE IF pc = "epoch" THEN 4 ELSE IF pc = "send" THEN 5 ELSE 6

\* C1: armed at e, a tick that reads e' > e runs post_update exactly once:
\* the read suspends the tick in the call with current_epoch still e; while
\* the call is suspended at one of its awaits the tick's only step is the call
\* going on, to a later await or to its return, with current_epoch still e; the
\* return is recorded once; and the step after the return sets current_epoch
\* to e', whatever the call's result was.
C1_PostThenAdvance ==
    [][ /\ (Tick /\ current_epoch # None /\ TickRead # None
              /\ TickRead[1] > current_epoch[1])
            => /\ w_pc' = "extract"
               /\ new_epoch' = TickRead
               /\ current_epoch' = current_epoch
               /\ published' = published
        /\ (w_pc \in PostAwaits)
            => /\ w_pc' \in PostAwaits \cup { "posted" }
               /\ AwaitRank(w_pc') > AwaitRank(w_pc)
               /\ published' = IF w_pc' = "posted" THEN Append(published, new_epoch[1])
                                ELSE published
               /\ w_pc' = "posted"
                    => post_result' \in { "sent", "send_failed", "aborted", "no_channel" }
               /\ new_epoch' = new_epoch
               /\ current_epoch' = current_epoch
               /\ current_epoch[1] < new_epoch[1]
        /\ (w_pc = "posted")
            => /\ w_pc' = "idle"
               /\ current_epoch' = new_epoch
               /\ published' = published
               /\ reads' = reads
      ]_vars

\* a tick read e', the send of its update failed, and current_epoch is e'
C1_Witness ==
    /\ w_pc = "idle"
    /\ post_result = "send_failed"
    /\ Len(published) = 1
    /\ Len(reads) = 2
    /\ Last(reads) = Some(Last(published))
    /\ current_epoch = Last(reads)
    /\ reads[1] # None
    /\ reads[1][1] < Last(published)

\* C2: from current_epoch = None, the first tick whose read succeeds with e
\* sets current_epoch to e and neither starts nor runs post_update.
C2_FirstReadArmsSilently ==
    [][ (Tick /\ current_epoch = None /\ TickRead # None)
            => /\ current_epoch' = TickRead
               /\ w_pc' = "idle"
               /\ new_epoch' = None
               /\ published' = published
               /\ published = << >>
               /\ post_result' = "none"
      ]_vars

\* the first good read, after a failed one, armed the watcher; nothing posted
C2_Witness ==
    /\ w_pc = "idle"
    /\ Len(reads) = 2
    /\ reads[1] = None
    /\ reads[2] # None
    /\ current_epoch = reads[2]
    /\ published = << >>
    /\ post_result = "none"

\* C3: the number of post_update calls the watcher made (counting the one a
\* suspended tick is in) is the number of reads that are strictly
\* greater than every earlier successful read; the reads None,10,10,11,9,12
\* give the two calls for 11 and 12, and the reads 100,101 the one for 101.
C3_PostsAreNewHighs ==
    /\ Len(published) + (IF w_pc \in PostAwaits THEN 1 ELSE 0)
         = Cardinality(NewHighs(reads))
    /\ (w_pc = "idle"
          /\ reads = << None, Some(10), Some(10), Some(11), Some(9), Some(12) >>)
        => published = << 11, 12 >>
    /\ (w_pc = "idle" /\ reads = << Some(100), Some(101) >>)
        => published = << 101 >>

C3_Witness ==
    /\ w_pc = "idle"
    /\ reads = << None, Some(10), Some(10), Some(11), Some(9), Some(12) >>
    /\ published = << 11, 12 >>
    /\ current_epoch = Some(12)

\* C4: armed at e, a tick that reads e' <= e starts no post_update, leaves
\* current_epoch at e and leaves the loop ready for its next tick.
C4_SameOrLowerIsNoChange ==
    [][ (Tick /\ current_epoch # None /\ TickRead # None
           /\ TickRead[1] <= current_epoch[1])
            => /\ current_epoch' = current_epoch
               /\ published' = published
               /\ post_result' = post_result
               /\ new_epoch' = None
               /\ w_pc' = "idle"
      ]_vars

\* armed at 11, the ticks read 11 again and then 9: nothing posted, still 11
C4_Witness ==
    /\ w_pc = "idle"
    /\ Len(reads) = 3
    /\ reads[1] # None
    /\ reads[2] = reads[1]
    /\ reads[3] # None
    /\ reads[3][1] < reads[1][1]
    /\ current_epoch = reads[1]
    /\ published = << >>

\* C5: armed at e, a tick whose read fails leaves current_epoch at e, starts
\* no post_update and leaves the loop ready for its next tick.
C5_FailedReadKeepsArmed ==
    [][ (Tick /\ current_epoch # None /\ TickRead = None)
            => /\ current_epoch' = current_epoch
               /\ published' = published
               /\ post_result' = post_result
               /\ new_epoch' = None
               /\ w_pc' = "idle"
      ]_vars

\* armed, then a failed read, then the next tick read again and detected a
\* new epoch
C5_Witness ==
    /\ Len(reads) = 3
    /\ reads[1] # None
    /\ reads[2] = None
    /\ reads[3] # None
    /\ w_pc = "idle"
    /\ current_epoch = reads[3]
    /\ published = << reads[3][1] >>

\* C6: the watcher calls post_update at most once for an epoch value: the
\* epochs it posted for are strictly increasing, and none is above the
\* epoch a later read is compared with.
C6_OnePostPerEpoch ==
    /\ \A i, j \in 1..Len(published) : i < j => published[i] < published[j]
    /\ (w_pc = "idle" /\ published # << >>) =>
          /\ current_epoch # None
          /\ Last(published) <= current_epoch[1]

\* the update for e' was not delivered, a later tick read e' again, and
\* there is still one post for e'
C6_Witness ==
    /\ w_pc = "idle"
    /\ post_result = "send_failed"
    /\ Len(published) = 1
    /\ Len(reads) = 3
    /\ reads[2] = Some(published[1])
    /\ reads[3] = reads[2]

\* the epoch values read successfully, and the greatest of a set of them
GoodReads(seq) == GoodBefore(seq, Len(seq) + 1)
MaxOf(S) == CHOOSE x \in S : \A y \in S : y <= x

\* C31: once current_epoch holds an epoch it never becomes None and never
\* decreases, and whenever a tick has ended (the loop is idle) it is the
\* greatest of the epoch values read successfully so far.
C31_LastEpochIsRunningMaximum ==
    [][ /\ current_epoch # None
            => /\ current_epoch' # None
               /\ current_epoch'[1] >= current_epoch[1]
        /\ (w_pc' = "idle" /\ GoodReads(reads') # { })
            => /\ current_epoch' # None
               /\ current_epoch'[1] = MaxOf(GoodReads(reads'))
      ]_vars

\* after the reads 10, 12, a failed read and 11 the loop is idle and
\* current_epoch is 12
C31_Witness ==
    /\ w_pc = "idle"
    /\ reads = << Some(10), Some(12), None, Some(11) >>
    /\ current_epoch = Some(12)

\* C32: while current_epoch is None, a tick whose read fails leaves it None
\* and starts no post_update; the first tick whose read succeeds, after any
\* number of failed reads, stores the epoch read and starts no post_update.
C32_FailedReadsBeforeArming ==
    [][ /\ (Tick /\ current_epoch = None /\ TickRead = None)
            => /\ current_epoch' = None
               /\ w_pc' = "idle"
               /\ new_epoch' = None
               /\ published' = << >>
               /\ post_result' = "none"
        /\ (Tick /\ current_epoch = None /\ TickRead # None)
            => /\ \A i \in 1..Len(reads) : reads[i] = None
               /\ current_epoch' = TickRead
               /\ w_pc' = "idle"
               /\ published' = << >>
      ]_vars

\* three reads failed, the fourth armed the watcher, nothing was posted
C32_Witness ==
    /\ w_pc = "idle"
    /\ Len(reads) = 4
    /\ \A i \in 1..3 : reads[i] = None
    /\ reads[4] # None
    /\ current_epoch = reads[4]
    /\ published = << >>
    /\ post_result = "none"

\* C33: the "Current Epoch" field of the report the watcher sends for the
\* transition to e' shows e', the epoch whose read started the post_update
\* call.
C33_ReportShowsTriggeringEpoch ==
    (w_pc = "posted" /\ post_result = "sent")
        => /\ post_epoch # None
           /\ post_epoch[1] = new_epoch

\* C13: ticks never overlap: a tick starts (reads the epoch) only when no
\* tick is suspended, that is when every post_update call an earlier tick
\* started has returned and the assignment after it was made; while a tick
\* is under way no read happens.
C13_TicksNeverOverlap ==
    [][ /\ (Len(reads') # Len(reads))
            => /\ w_pc = "idle"
               /\ new_epoch = None
               /\ Len(published) = Cardinality(NewHighs(reads))
               /\ published # << >> => current_epoch[1] >= Last(published)
        /\ (w_pc # "idle") => reads' = reads
      ]_vars

\* the post_update call of the second tick aborted, and the third tick ran
\* after it
C13_Witness ==
    /\ w_pc = "idle"
    /\ Len(reads) = 3
    /\ Len(published) = 1
    /\ reads[2] = Some(published[1])
    /\ reads[3] = None
    /\ post_result = "aborted"
    /\ current_epoch = reads[2]

\* C15: the watcher has no terminal state: it is always between ticks, at an
\* await of its post_update call or at that call's return; a suspended tick
\* can always go on; and between ticks the next
\* tick can always read the epoch, whether the read fails or succeeds
\* (MaxReads is where the exploration stops).
C15_NoTerminalState ==
    /\ w_pc \in { "idle", "posted" } \cup PostAwaits
    /\ w_pc \in PostAwaits => ENABLED check_epoch_post_update
    /\ w_pc = "posted" => ENABLED check_epoch_advance
    /\ (w_pc = "idle" /\ Len(reads) < MaxReads)
          => /\ ENABLED check_epoch_read_failed
             /\ \/ ENABLED check_epoch_initial
                \/ ENABLED check_epoch_detected
                \/ ENABLED check_epoch_no_change

\* after a failed read, a failed publish and a lower reading, a further tick
\* has read the epoch
C15_Witness ==
    /\ w_pc = "idle"
    /\ Len(reads) = 5
    /\ reads[1] # None
    /\ reads[2] = None
    /\ reads[3] # None /\ reads[3][1] > reads[1][1]
    /\ published = << reads[3][1] >>
    /\ post_result \in { "aborted", "send_failed" }
    /\ reads[4] # None /\ reads[4][1] < reads[3][1]
    /\ reads[5] = reads[3]
    /\ current_epoch = reads[3]

(***************************************************************************)
(* Properties of log_expense (SpecLedger).                                 *)
(***************************************************************************)
\* the store holds the row, the channel the embed, of call c
Stored(c) == \E i \in 1..Len(sheet_rows) : sheet_rows[i].timestamp = c
Notified(c) == \E i \in 1..Len(outgoings) : outgoings[i].timestamp = c

\* the call of slot k has returned
Returned(k) == l_pc[k] = "idle" /\ result[k] # None

\* C7: log_expense returns success exactly when both writes succeeded, that
\* is when the call's row is in the store and its embed is in the channel.
C7_SuccessIffBoth ==
    \A k \in Slots :
        Returned(k) =>
            /\ result[k][1].success
                 <=> (sheets_result[k][1].success /\ discord_result[k][1].success)
            /\ result[k][1].success <=> (Stored(call_no[k]) /\ Notified(call_no[k]))

\* exactly one write succeeded and the call returned failure
C7_Witness ==
    /\ Returned(1)
    /\ ~ result[1][1].success
    /\ Stored(call_no[1])
    /\ ~ Notified(call_no[1])

\* C8: a failure result lists every failing side with that side's own
\* reason, and nothing of a side that succeeded.
C8_FailureNamesFailingSides ==
    \A k \in Slots :
        (Returned(k) /\ ~ result[k][1].success) =>
            LET sr == sheets_result[k][1]
                dr == discord_result[k][1]
                bullets == Range(result[k][1].message.bullets)
            IN  /\ ~ sr.success => << "Google Sheets", sr.message >> \in bullets
                /\ ~ dr.success => << "Discord", dr.message >> \in bullets
                /\ sr.success =>
                     /\ \A b \in bullets : b[1] # "Google Sheets" /\ b[2] # sr.message
                     /\ result[k][1].message.failed = Some("Discord")
                     /\ result[k][1].message.succeeded = Some("Google Sheets")
                /\ dr.success =>
                     /\ \A b \in bullets : b[1] # "Discord" /\ b[2] # dr.message
                     /\ result[k][1].message.failed = Some("Google Sheets")
                     /\ result[k][1].message.succeeded = Some("Discord")
                /\ \A b \in bullets :
                     \/ b[1] = "Google Sheets" /\ b[2] \in SheetsMessages \ { SheetsOk }
                     \/ b[1] = "Discord" /\ b[2] \in DiscordMessages \ { DiscordOk }

\* the store refused the row, the channel took the embed
C8_Witness ==
    /\ Returned(1)
    /\ ~ sheets_result[1][1].success
    /\ discord_result[1][1].success
    /\ result[1][1].message.bullets = << << "Google Sheets", SheetsHttpError >> >>

\* C9: when the store accepted the row and the channel did not take the
\* embed, the result is a failure that names Discord with its reason, and
\* the row stays: every row the store accepted is in the store, in every
\* later state.
C9_NoRollback ==
    /\ \A k \in Slots :
         (Returned(k) /\ sheets_result[k][1].success /\ ~ discord_result[k][1].success) =>
              /\ ~ result[k][1].success
              /\ result[k][1].message.failed = Some("Discord")
              /\ result[k][1].message.bullets
                   = << << "Discord", discord_result[k][1].message >> >>
              /\ Stored(call_no[k])
    /\ \A c \in appended : Stored(c)
    /\ Len(sheet_rows) = Cardinality(appended)

\* a second call has returned and the row of the first, whose embed was
\* never sent, is still in the store
C9_Witness ==
    /\ Returned(1)
    /\ call_no[1] = 2
    /\ Stored(1)
    /\ ~ Notified(1)
    /\ sheets_result[1][1].success
    /\ ~ discord_result[1][1].success
    /\ ~ result[1][1].success
    /\ Len(sheet_rows) = 2

\* C17: the header row is read at most once in a session, and exactly once
\* as soon as the header check of one log_to_google_sheets call is over.
C17_HeaderReadOnce ==
    /\ header_reads <= 1
    /\ header_calls # << >> => header_reads = 1

\* the far end carries out the append request of slot k in this step
AppendServed(k) == l_pc[k] = "append" /\ ~ served[k] /\ served'[k]

\* C18: entries are not deduplicated: the append request of a log_expense
\* call, when the store carries it out, adds exactly one row, the call's
\* own, after the rows the store holds, whatever they are; nothing else
\* changes the rows, and the call reports success exactly when its row was
\* added.
C18_EveryAppendAddsARow ==
    [][ \A k \in Slots :
        /\ AppendServed(k)
            => sheet_rows' = Append(sheet_rows, row_data(user_data[k][1], call_no[k]))
        /\ (sheet_rows' # sheet_rows) => \E j \in Slots : AppendServed(j)
        /\ (l_pc[k] = "append" /\ l_pc'[k] = "discord")
            => /\ sheets_result'[k][1].success = Stored(call_no[k])
               /\ sheet_rows' = sheet_rows
      ]_vars

\* two calls with the same entry are in flight together; the store took the
\* row of the second before the row of the first and holds both
C18_Witness ==
    /\ call_no[1] = 1
    /\ call_no[2] = 2
    /\ l_pc[1] = "send"
    /\ sheets_result[1][1].success
    /\ l_pc[2] = "append"
    /\ served[2]
    /\ Len(sheet_rows) = 2
    /\ sheet_rows[1].timestamp = 2
    /\ sheet_rows[2].timestamp = 1
    /\ same_entry(sheet_rows[1], user_data[1][1])
    /\ same_entry(sheet_rows[2], user_data[1][1])

(***************************************************************************)
(* Properties of log_expense under shutdown (SpecShutdown).                *)
(***************************************************************************)
\* C19: after the shutdown signal, a log_expense call whose row is in the
\* store and whose embed is not in the channel has returned its result or
\* has the failure of its notification write on record.
C19_ShutdownKeepsOutcome ==
    \A k \in Slots :
        (/\ ~ alive
         /\ call_no[k] > 0
         /\ Stored(call_no[k])
         /\ ~ Notified(call_no[k]))
            => \/ result[k] # None
               \/ discord_result[k] # None /\ ~ discord_result[k][1].success

(***************************************************************************)
(* Properties of post_update (SpecReport).                                 *)
(***************************************************************************)
\* C10: whatever sources fail and however they fail, a post_update call that
\* has a channel and data it can render hands the report to channel.send.
C10_CollectNeverAborts ==
    (/\ manual_inp # None
     /\ manual_result \notin { "none", "refused", "not_run" }
     /\ manual_inp[1].channel = "ok"
     /\ ~ RenderRaises(ExtractedData(manual_inp[1].firecrawl)))
        => manual_result \in { "sent", "send_failed" }

(***************************************************************************)
(* Properties of post_update, await by await (SpecCollect).                *)
(***************************************************************************)
\* C16: the three source calls of a collection run concurrently: by the time
\* one of them has returned, all three have been started.
C16_SourcesStartedTogether ==
    finished # { } => started = { "scrape", "wallet", "apy" }

\* the "!test" command ran post_update with a channel
ReportRan ==
    /\ manual_inp # None
    /\ manual_result \notin { "none", "refused", "not_run" }
    /\ manual_inp[1].channel = "ok"

Sources == { "epoch", "scrape", "wallet", "apy" }

\* the source answered with all of its values
SourceSucceeds(inp, s) ==
    IF s = "epoch" THEN inp.epoch # None
    ELSE IF s = "scrape" THEN inp.firecrawl = [kind |-> "data", data |-> AllOf("num")]
    ELSE IF s = "wallet" THEN inp.wallet = "balances"
    ELSE inp.apy # None

\* the source's call failed
SourceFails(inp, s) ==
    IF s = "epoch" THEN inp.epoch = None
    ELSE IF s = "scrape" THEN inp.firecrawl.kind \in { "raise", "error", "unexpected" }
    ELSE IF s = "wallet" THEN inp.wallet = "error"
    ELSE inp.apy = None

\* every field of the source shows its value / shows N/A (a field left out
\* of the embed counts as unknown)
SourcePopulated(embed, inp, s) ==
    IF s = "epoch" THEN embed.epoch = inp.epoch /\ embed.epoch # None
    ELSE IF s = "scrape" THEN \A f \in Fields : embed.fields[f] = "value"
    ELSE IF s = "wallet" THEN embed.wallet = "value"
    ELSE embed.apy = "value"

SourceUnknown(embed, s) ==
    IF s = "epoch" THEN embed.epoch = None
    ELSE IF s = "scrape" THEN \A f \in Fields : embed.fields[f] = "N/A"
    ELSE IF s = "wallet" THEN embed.wallet = "N/A"
    ELSE embed.apy = "N/A"

\* C11: when one source succeeds and every other source fails, post_update
\* hands channel.send an embed in which the fields of the succeeding source
\* show its values and every field of a failing source shows N/A, whichever
\* source is the one that succeeds.
C11_OneSourceLeft ==
    \A s \in Sources :
        (/\ ReportRan
         /\ SourceSucceeds(manual_inp[1], s)
         /\ \A t \in Sources \ { s } : SourceFails(manual_inp[1], t))
            => /\ manual_embed # None
               /\ SourcePopulated(manual_embed[1], manual_inp[1], s)
               /\ \A t \in Sources \ { s } : SourceUnknown(manual_embed[1], t)

(***************************************************************************)
(* Properties of the whole bot (SpecBot).                                  *)
(***************************************************************************)
\* C14: current_epoch is written by the watcher's tick only.  A step that
\* changes it is the tick's first good read or the assignment after the
\* tick's post_update call; a step of a submission (on_submit, log_expense)
\* or of the "!test" command (post_update) leaves it as it was, wherever
\* the tick is.
C14_WatcherOwnsCurrentEpoch ==
    [][ /\ (current_epoch' # current_epoch)
            => \/ /\ w_pc = "idle"
                  /\ current_epoch = None
                  /\ Len(reads') = Len(reads) + 1
                  /\ current_epoch' = Last(reads')
               \/ /\ w_pc = "posted"
                  /\ w_pc' = "idle"
                  /\ current_epoch' = new_epoch
        /\ (ledgerVars' # ledgerVars \/ submitVars' # submitVars
                \/ manualVars' # manualVars)
            => current_epoch' = current_epoch
      ]_vars

\* a tick is suspended in post_update, at the await of its epoch read, with
\* current_epoch still 100, while a
\* submission was logged with the epoch 101 it read and the "!test" command
\* sent a report showing 101
C14_Witness ==
    /\ w_pc = "epoch"
    /\ current_epoch = Some(100)
    /\ new_epoch = Some(101)
    /\ submit_reply[1] = "logged"
    /\ user_data[1] # None
    /\ user_data[1][1].epoch = Some(101)
    /\ user_data[1][1].category = "Other: misc"
    /\ user_data[1][1].amount = "125.5"
    /\ manual_result = "sent"
    /\ manual_embed # None
    /\ manual_embed[1].epoch = Some(101)

(***************************************************************************)
(* Properties of the source clients (SpecSources).                         *)
(***************************************************************************)
\* the failures of the far end: transport, HTTP status, authentication, body
SourceFailures ==
    TransportFailures \cup { "invalid_key", "csv_error", "bad_mimetype", "bad_json" }

\* the failure reason the returned value carries, None when it has none: the
\* extract response's error, the wallet dict's "error" entry; the APY
\* client returns a float or None and has no place for one
failure_reason(source, value) ==
    IF source = "scrape" THEN IF value.kind = "error" THEN Some("error") ELSE None
    ELSE IF source = "wallet" THEN value.error
    ELSE None

\* the data rows of a feed that are well formed: two columns or more and a
\* balance that is a number
WellFormedRows(rows) ==
    SelectSeq(rows, LAMBDA row : row.cols >= 2 /\ row.balance # None)

MalformedRows(rows) ==
    SelectSeq(rows, LAMBDA row : row.cols < 2 \/ row.balance = None)

\* the results get_sanctum_apy gives for a 200 response without an APY value
NoDataResults ==
    { get_sanctum_apy(answer) : answer \in { a \in ApyAnswers : a.kind \in { "no_data", "no_apy" } } }

\* C12: a source client call whose far end fails (transport, HTTP, auth or
\* parse failure) raises nothing into its caller and returns a value that
\* carries a failure reason; any text that is not empty is accepted as a
\* classified reason.
C12_FailuresAreValues ==
    (/\ src_call # None
     /\ src_result # None
     /\ src_call[1].answer.kind \in SourceFailures)
        => /\ ~ src_result[1].raised
           /\ failure_reason(src_call[1].source, src_result[1].value) # None
           /\ failure_reason(src_call[1].source, src_result[1].value) # Some("")

\* C21: Unknown and zero stay distinct in what a source client returns: a
\* wallet or APY call whose source failed or gave no value returns no 0 for
\* the metric, and a latestApy of 0 is returned as the number 0, not None.
C21_UnknownIsNotZero ==
    (src_call # None /\ src_result # None)
        => /\ (src_call[1].source = "wallet" /\ src_call[1].answer.kind # "ok")
                => src_result[1].value.total_balance # 0
           /\ (src_call[1].source = "apy" /\ src_call[1].answer.kind # "apy")
                => src_result[1].value = None
           /\ (src_call[1].source = "apy" /\ src_call[1].answer.kind = "apy")
                => src_result[1].value # None

\* C22: every epoch-reading function returns the epoch the RPC answered, or
\* no epoch when the read failed; it never returns a number the RPC did not
\* answer.
C22_FailedReadGivesNoEpoch ==
    (/\ src_call # None
     /\ src_result # None
     /\ src_call[1].source \in { "discord_bot.get_current_epoch",
                                 "SolanaRPC.get_current_epoch",
                                 "solana_helper.get_current_epoch" })
        => /\ ~ src_result[1].raised
           /\ src_result[1].value = src_call[1].answer.epoch

\* C23: what get_sanctum_apy returns for a missing or rejected API key is
\* not a value it returns for a successful response without an APY value.
C23_AuthFailureIsNotNoData ==
    (/\ src_call # None
     /\ src_result # None
     /\ src_call[1].source = "apy"
     /\ src_call[1].answer.kind \in { "no_key", "invalid_key", "auth_error" })
        => src_result[1].value \notin NoDataResults

\* C24: in a feed that was read, every malformed data row is skipped with a
\* printed line of its own, the well-formed rows before and after it are
\* all in individual_balances in the feed's order, and the dict carries no
\* error.
C24_MalformedRowsSkippedAndLogged ==
    (/\ src_call # None
     /\ src_result # None
     /\ src_call[1].source = "wallet"
     /\ src_call[1].answer.kind = "ok")
        => /\ src_result[1].value.error = None
           /\ Len(src_result[1].value.individual_balances)
                = Len(WellFormedRows(src_call[1].answer.rows))
           /\ \A i \in 1..Len(src_result[1].value.individual_balances) :
                /\ src_result[1].value.individual_balances[i].address
                     = WellFormedRows(src_call[1].answer.rows)[i].address
                /\ src_result[1].value.individual_balances[i].balance
                     = WellFormedRows(src_call[1].answer.rows)[i].balance[1]
           /\ Len(src_result[1].printed) = Len(MalformedRows(src_call[1].answer.rows))
           /\ \A i \in 1..Len(src_result[1].printed) :
                src_result[1].printed[i].address
                    = MalformedRows(src_call[1].answer.rows)[i].address

\* C20: no raw value of a scraped field loses the report: when app.extract
\* answered (whatever the fields hold: nothing, a number, a display string or
\* the empty string), the embed is handed to channel.send and every scraped
\* field in it shows its formatted value or N/A.
C20_MalformedFieldKeepsReport ==
    (ReportRan /\ manual_inp[1].firecrawl.kind # "raise")
        => /\ manual_embed # None
           /\ \A f \in Fields : manual_embed[1].fields[f] \in { "value", "N/A" }

(***************************************************************************)
(* Properties of a submission (SpecSubmit).                                *)
(***************************************************************************)
\* the amount is a positive number
IsPositiveNumber(amount) ==
    /\ amount.float # None
    /\ amount.float[1].kind \in { "finite", "inf" }
    /\ amount.float[1].kind = "finite" => amount.float[1].tenths > 0

\* C29: no entry whose amount is not a positive number is handed to
\* log_expense: on_submit refuses an amount that is not a number, is zero or
\* is negative, so the entry of every log_expense call, every row appended
\* to the sheet and every notification carries the text of a positive
\* number.
C29_NoWriteWithoutPositiveAmount ==
    \A amount \in { a \in AmountInputs : ~ IsPositiveNumber(a) } :
        /\ \A k \in Slots : user_data[k] # None => user_data[k][1].amount # amount.str
        /\ \A i \in 1..Len(sheet_rows) : sheet_rows[i].amount # amount.str
        /\ \A i \in 1..Len(outgoings) : outgoings[i].amount # amount.str

\* C30: the category of every entry handed to log_expense is one of the
\* preset categories or "Other: " followed by a free text, whatever text
\* the category box held.
C30_CategoryIsPresetOrOther ==
    \A k \in Slots :
        user_data[k] # None
            => \/ user_data[k][1].category \in valid_categories
               \/ /\ startswith(user_data[k][1].category, "Other: ")
                  /\ Len(user_data[k][1].category) > Len("Other: ")

(***************************************************************************)
(* Properties of the volume field (SpecVolume).                            *)
(***************************************************************************)
\* the value format_volume was called with
formatted_value ==
    IF vol_call[1].fn = "post_update" THEN volume_val[1] ELSE vol_call[1].arg

IsNumber(value) == value.type \in { "int", "float" }

\* the reading of a magnitude text by its last character: K or k, M or m,
\* or no suffix; PyNone when what remains is not a number
parse_magnitude(text) ==
    LET cleaned == replace(replace(text, "$"), ",")
        last == IF Len(cleaned) = 0 THEN "" ELSE char(cleaned, Len(cleaned))
        rest == SubSeq(cleaned, 1, Len(cleaned) - 1)
    IN  IF last \in { "K", "k" }
        THEN IF float(rest) = None THEN PyNone ELSE times(float(rest)[1], 1000)
        ELSE IF last \in { "M", "m" }
        THEN IF float(rest) = None THEN PyNone ELSE times(float(rest)[1], 1000000)
        ELSE IF float(cleaned) = None THEN PyNone ELSE float(cleaned)[1]

\* C25: the value post_update parses from a volume text is the reading by
\* the last character: after '$' and ',' are stripped, a trailing K or k
\* multiplies the number in front of it by 1,000, a trailing M or m by
\* 1,000,000, a text without suffix is the number itself, and a remainder
\* that is not a number gives None.
C25_MagnitudeParsing ==
    (/\ vol_call # None
     /\ vol_call[1].fn = "post_update"
     /\ vol_call[1].arg.type = "str"
     /\ volume_val # None)
        => volume_val[1] = parse_magnitude(vol_call[1].arg.s)

\* C26: the parsing gives None for the empty string and for None, and
\* format_volume returns "N/A", raising nothing, for None and for every
\* value that is not a number.
C26_UnknownInNotAvailableOut ==
    /\ (/\ vol_call # None
         /\ vol_call[1].fn = "post_update"
         /\ vol_call[1].arg \in { PyNone, PyStr("") }
         /\ volume_val # None)
            => volume_val[1] = PyNone
    /\ (/\ vol_call # None
         /\ volume_field # None
         /\ ~ IsNumber(formatted_value))
            => volume_field[1] = [ raised |-> FALSE, text |-> "N/A" ]

\* the empty volume text was parsed to None and rendered "N/A"
C26_Witness ==
    /\ vol_call = Some([ fn |-> "post_update", arg |-> PyStr("") ])
    /\ volume_val = Some(PyNone)
    /\ volume_field = Some([ raised |-> FALSE, text |-> "N/A" ])

\* a rendering's suffix, the count of its decimals, and the number it shows
suffix_shown(text) ==
    IF char(text, Len(text)) \in { "K", "M" } THEN char(text, Len(text)) ELSE ""

decimals_shown(text) ==
    LET body == replace(replace(text, "K"), "M")
        dots == { i \in 1..Len(body) : char(body, i) = "." }
    IN  IF dots = { } THEN 0 ELSE Len(body) - (CHOOSE i \in dots : TRUE)

shown_number(text) ==
    float(replace(replace(replace(replace(replace(text, "$"), ","), "-"), "K"), "M"))

\* the digits of a rendering read as one natural number: 12345 for
\* "$1,234.5M"
shown_digits(text) ==
    digits_value(replace(replace(replace(replace(replace(replace(text, "$"), ","), "-"),
                                         "."), "K"), "M"))

\* the sign of |x| - n * by, for a float x, an integer n and a natural by of
\* at most 2^20 (the product, below 2^53, is a float)
compare_product(x, n, by) ==
    LET y == times(PyFloat(n, 1), by)
        differ == { i \in 1..mant_dig : x.digits[i] # y.digits[i] }
        first == CHOOSE i \in differ : \A j \in differ : i <= j
    IN  IF n < 0 THEN 1
        ELSE IF n = 0 THEN (IF is_zero(x) THEN 0 ELSE 1)
        ELSE IF is_zero(x) THEN 0 - 1
        ELSE IF x.exp > y.exp THEN 1
        ELSE IF x.exp < y.exp THEN 0 - 1
        ELSE IF differ = { } THEN 0
        ELSE IF x.digits[first] = 1 THEN 1
        ELSE 0 - 1

\* the number shown, shown_digits / 10^places, differs from |value| / scale
\* by at most half a unit of the last decimal shown:
\* (2 * shown_digits - 1) * scale <= 2 * 10^places * |value|
\*                                <= (2 * shown_digits + 1) * scale
within_half_unit(text, value, scale, places) ==
    LET unit == 2 * Pow10(places)
    IN  IF scale % unit = 0
        THEN /\ compare_product(value, 2 * shown_digits(text) - 1, scale \div unit) >= 0
             /\ compare_product(value, 2 * shown_digits(text) + 1, scale \div unit) <= 0
        ELSE /\ compare(value, scale * (2 * shown_digits(text) - 1), unit) >= 0
             /\ compare(value, scale * (2 * shown_digits(text) + 1), unit) <= 0

rendered_as(text, value, scale, places, suffix) ==
    /\ char(text, 1) = "$"
    /\ suffix_shown(text) = suffix
    /\ decimals_shown(text) = places
    /\ shown_number(text) # None
    /\ within_half_unit(text, value, scale, places)

\* C27: format_volume renders a number below 1,000 as '$' and the number
\* with two decimals and no suffix, a number from 1,000 up to but not
\* including 1,000,000 as its thousands with one decimal and K, and a number
\* of 1,000,000 or more as its millions with one decimal and M; 1,000 is
\* rendered with K and 1,000,000 with M.
C27_RangesChooseRendering ==
    (/\ vol_call # None
     /\ volume_field # None
     /\ IsNumber(formatted_value))
        => /\ ~ volume_field[1].raised
           /\ ~ at_least(formatted_value, 1000)
                => rendered_as(volume_field[1].text, formatted_value, 1, 2, "")
           /\ (at_least(formatted_value, 1000) /\ ~ at_least(formatted_value, 1000000))
                => rendered_as(volume_field[1].text, formatted_value, 1000, 1, "K")
           /\ at_least(formatted_value, 1000000)
                => rendered_as(volume_field[1].text, formatted_value, 1000000, 1, "M")

\* format_volume was called with the boundary 1000 and gave "$1.0K"
C27_Witness ==
    /\ vol_call = Some([ fn |-> "format_volume", arg |-> PyFloat(1000, 1) ])
    /\ volume_field = Some([ raised |-> FALSE, text |-> "$1.0K" ])

\* the number of a well-formed text is in the range of its suffix: below
\* 1,000 without suffix, from 1 up to but not including 1,000 with K, from 1
\* up to but not including 1,000,000 with M
InRangeOfSuffix(text) ==
    LET mantissa == shown_number(text)[1]
    IN  IF suffix_shown(text) = "K" THEN at_least(mantissa, 1) /\ ~ at_least(mantissa, 1000)
        ELSE IF suffix_shown(text) = "M"
        THEN at_least(mantissa, 1) /\ ~ at_least(mantissa, 1000000)
        ELSE ~ at_least(mantissa, 1000)

\* the number of a well-formed text is in the range of another suffix: 1,000
\* or more without suffix, below 1 or 1,000 and more with K, below 1 with M
InRangeOfOtherSuffix(text) ==
    LET mantissa == shown_number(text)[1]
    IN  IF suffix_shown(text) = "K" THEN ~ at_least(mantissa, 1) \/ at_least(mantissa, 1000)
        ELSE IF suffix_shown(text) = "M" THEN ~ at_least(mantissa, 1)
        ELSE at_least(mantissa, 1000)

\* the suffix format_volume gives a number
suffix_of_value(value) ==
    IF at_least(value, 1000000) THEN "M" ELSE IF at_least(value, 1000) THEN "K" ELSE ""

\* C28 as stated: for every well-formed magnitude text at the stated
\* precision, formatting the parsed value gives the text back.
C28_RoundTrip ==
    (/\ vol_call # None
     /\ vol_call[1].fn = "post_update"
     /\ vol_call[1].arg.type = "str"
     /\ vol_call[1].arg.s \in WellFormedVolumes
     /\ volume_field # None)
        => volume_field[1] = [ raised |-> FALSE, text |-> vol_call[1].arg.s ]

\* C28: for every well-formed magnitude text at the stated precision whose
\* number is in the range of its suffix (below 1,000 without suffix, 1.0 to
\* 999.9 with K, 1.0 to 999,999.9 with M), formatting the parsed value gives
\* the text back: the same suffix and the same digits.  A text whose number
\* is in the range of another suffix does not come back: it is rendered
\* with the suffix format_volume gives the parsed value, "$0.5K" as
\* "$500.00", "$1,234.56" as "$1.2K" and "$1,000.0K" as "$1.0M".
C28_RoundTripInRange ==
    (/\ vol_call # None
     /\ vol_call[1].fn = "post_update"
     /\ vol_call[1].arg.type = "str"
     /\ vol_call[1].arg.s \in WellFormedVolumes
     /\ volume_field # None)
        => /\ InRangeOfSuffix(vol_call[1].arg.s)
                => volume_field[1] = [ raised |-> FALSE, text |-> vol_call[1].arg.s ]
           /\ InRangeOfOtherSuffix(vol_call[1].arg.s)
                => /\ ~ volume_field[1].raised
                   /\ volume_field[1].text # vol_call[1].arg.s
                   /\ suffix_shown(volume_field[1].text) # suffix_shown(vol_call[1].arg.s)
                   /\ suffix_shown(volume_field[1].text) = suffix_of_value(volume_val[1])
           /\ vol_call[1].arg.s = "$0.5K" => volume_field[1].text = "$500.00"
           /\ vol_call[1].arg.s = "$1,234.56" => volume_field[1].text = "$1.2K"
           /\ vol_call[1].arg.s = "$1,000.0K" => volume_field[1].text = "$1.0M"

\* "$999,999.9M", the greatest M text of the range, was parsed to
\* 999,999,900,000 and formatted back to itself
C28_Witness ==
    /\ vol_call = Some([ fn |-> "post_update", arg |-> PyStr("$999,999.9M") ])
    /\ volume_val = Some(times(PyFloat(9999999, 10), 1000000))
    /\ volume_field = Some([ raised |-> FALSE, text |-> "$999,999.9M" ])


\* C34: log_expense does its two writes in a fixed order and independently:
\* the notification post starts only after the store write attempt has
\* returned, and it is attempted whatever that attempt returned (a failure to
\* initialise the store service included); log_expense does not return
\* before both attempts have.
C34_StoreThenNotify ==
    [][ \A k \in Slots :
        /\ (l_pc[k] \in { "sheets", "build", "header_get", "header_update", "row", "append" })
            => /\ l_pc'[k] \notin { "send", "return", "idle" }
               /\ discord_result'[k] = None
               /\ (l_pc'[k] = "discord") = (sheets_result'[k] # None)
        /\ (l_pc[k] \in { "discord", "send" })
            => /\ sheets_result[k] # None
               /\ sheets_result'[k] = sheets_result[k]
               /\ ENABLED post_to_discord(k) \/ l_pc[k] = "send"
        /\ (l_pc[k] = "discord" /\ l_pc'[k] # l_pc[k]) => l_pc'[k] \in { "send", "return" }
        /\ (l_pc'[k] = "return" /\ l_pc[k] # "return") => discord_result'[k] # None
        /\ (outgoings' # outgoings)
            => \E j \in Slots :
                 /\ l_pc[j] = "send"
                 /\ outgoings' = Append(outgoings, embed_of(user_data[j][1], call_no[j]))
        /\ (Notified(call_no[k])' /\ ~ Notified(call_no[k])) => l_pc[k] = "send"
        /\ (result'[k] # None /\ result'[k] # result[k])
            => (sheets_result[k] # None /\ discord_result[k] # None)
      ]_vars

\* a call whose store service could not be initialised and whose notification
\* was posted all the same
C34_Witness ==
    /\ l_pc[1] = "return"
    /\ sheets_result[1] = Some(Failure(SheetsInitFailed))
    /\ discord_result[1] = Some(Success(DiscordOk, None))
    /\ Len(outgoings) = 1
    /\ sheet_rows = << >>


\* the append request's three outcomes
AppendOutcomes == { "ok", "http_error", "error" }

\* C35: a failed header check or repair (setup_headers_if_needed returning
\* False) does not prevent the row append: with the check failing, the append
\* is still issued and each of its outcomes is what log_to_google_sheets
\* reports; on every call the reported success is the append's alone.
C35_HeaderFailureDoesNotStopAppend ==
    [][ \A k \in Slots :
        /\ (l_pc[k] = "row")
            => /\ ENABLED log_to_google_sheets_append(k)
               /\ l_pc'[k] \in { "row", "append" }
               /\ sheets_result'[k] = None
        /\ (l_pc[k] = "append" /\ header_calls # << >>
                /\ ~ header_calls[Len(header_calls)].ok)
            => \A app \in AppendOutcomes :
                 (app = "ok") = served[k]
                    => ENABLED ( /\ log_to_google_sheets_return(k)
                                 /\ sheets_result'[k]
                                      = Some(append_result(app, call_no[k])) )
        /\ (l_pc[k] = "append" /\ l_pc'[k] # "append")
            => /\ sheets_result'[k] \in { Some(append_result(app, call_no[k])) :
                                            app \in AppendOutcomes }
               /\ sheets_result'[k][1].success = (call_no[k] \in appended)
               /\ sheets_result'[k][1].success = served[k]
      ]_vars

\* the header check failed on a row 1 that needed the repair, and the entry
\* was stored under the unrepaired row
C35_Witness ==
    /\ header_calls = << [ok |-> FALSE, wrote |-> FALSE] >>
    /\ sheet_headers = LegacyHeaders
    /\ sheets_result[1] # None
    /\ sheets_result[1][1].success
    /\ Len(sheet_rows) = 1


\* row 1 is missing or empty, shorter than the desired columns, or differs
\* from them in one of its first cells
BrokenHeaders(row) ==
    ~ ( /\ Len(row) >= Len(DesiredHeaders)
        /\ \A i \in 1..Len(DesiredHeaders) : row[i] = DesiredHeaders[i] )

\* C36: header repair is idempotent.  A setup_headers_if_needed call writes
\* row 1 only when the stored row is missing, empty, shorter than the 8
\* desired columns or different from them in its first 8 cells, and a call
\* that succeeds writes it in each of these cases; after a successful call the
\* first 8 cells are the desired headers, and stay so; the call that follows
\* a successful one, whose read is answered with such a row, writes nothing.
C36_HeaderRepairIdempotent ==
    [][ /\ Len(DesiredHeaders) = 8
        /\ \A k \in Slots :
             /\ (l_pc[k] = "header_get" /\ ~ served[k] /\ served'[k])
                    => row1'[k] = Some(sheet_headers)
             /\ (l_pc[k] = "header_get" /\ l_pc'[k] = "header_update")
                    => BrokenHeaders(row1[k][1])
        /\ (sheet_headers' # sheet_headers)
            => /\ \E k \in Slots : l_pc[k] = "header_update"
               /\ BrokenHeaders(sheet_headers)
        /\ ~ BrokenHeaders(sheet_headers) => sheet_headers' = sheet_headers
        /\ (Len(header_calls') = Len(header_calls) + 1)
            => LET call == header_calls'[Len(header_calls')]
                   k == CHOOSE j \in Slots : l_pc'[j] # l_pc[j]
               IN  /\ l_pc[k] \in { "header_get", "header_update" }
                   /\ call.wrote = (l_pc[k] = "header_update" /\ served[k])
                   /\ call.ok => (call.wrote = (l_pc[k] = "header_update"))
                   /\ (call.ok /\ ~ call.wrote) => ~ BrokenHeaders(row1[k][1])
                   /\ call.ok => ~ BrokenHeaders(sheet_headers')
                   /\ sheet_headers' = sheet_headers
      ]_vars

\* a call repaired a row 1 whose third cell was another column, and the next
\* call found nothing to write
C36_Witness ==
    /\ header_calls = << [ok |-> TRUE, wrote |-> TRUE], [ok |-> TRUE, wrote |-> FALSE] >>
    /\ sheet_headers = DesiredHeaders \o << "Extra" >>
    /\ header_reads = 2


\* the sum of the balance values of a list of entries, last entry first
RECURSIVE SumOfBalances(_)
SumOfBalances(entries) ==
    IF Len(entries) = 0 THEN 0
    ELSE entries[Len(entries)].balance
         + SumOfBalances(SubSeq(entries, 1, Len(entries) - 1))

\* C37: in every result of get_wallet_balances, total_balance is the sum of
\* the balance values listed in individual_balances; when the fetch or the
\* parse fails as a whole, the result has an empty individual_balances, a
\* total_balance of 0 and an error entry.  The call does not raise.
C37_TotalIsSumOfListed ==
    (src_call # None /\ src_call[1].source = "wallet" /\ src_result # None)
        => LET wallet_data == src_result[1].value
           IN  /\ ~ src_result[1].raised
               /\ wallet_data.total_balance
                    = SumOfBalances(wallet_data.individual_balances)
               /\ (src_call[1].answer.kind # "ok")
                    => /\ wallet_data.individual_balances = << >>
                       /\ wallet_data.total_balance = 0
                       /\ wallet_data.error # None

\* a feed of two wallets, both listed, whose total is their sum
C37_Witness ==
    /\ src_call # None
    /\ src_call[1].source = "wallet"
    /\ src_call[1].answer.kind = "ok"
    /\ src_result # None
    /\ src_result[1].value.individual_balances
         = << [address |-> "Cx46", balance |-> 5], [address |-> "91oP", balance |-> 5] >>
    /\ src_result[1].value.total_balance = 10


\* the awaits of the clean-up
CleanupSteps == { "delete_command", "delete_form", "new_form" }

\* C38: the expense-entry session performs its clean-up (deleting the user's
\* command message and the category form, posting a fresh form) only after
\* log_expense reported overall success and the followup that says so was
\* sent, and in that order; when log_expense reported a failure or the
\* amount was refused, none of these steps runs and the followup the handler
\* sends tells the user to try again.
C38_CleanupOnlyAfterSuccess ==
    [][ \A k \in Slots :
        /\ (s_pc'[k] \in CleanupSteps \/ cleanup'[k] # << >>)
            => /\ l_pc[k] = "idle"
               /\ result[k] # None /\ result[k][1].success
               /\ sheets_result[k][1].success /\ discord_result[k][1].success
               /\ submit_reply'[k] = "logged"
               /\ \A i, j \in 1..Len(cleanup'[k]) :
                    /\ cleanup'[k][i].step \in CleanupSteps
                    /\ (i < j) =>
                         << cleanup'[k][i].step, cleanup'[k][j].step >>
                            \in { << "delete_command", "delete_form" >>,
                                  << "delete_command", "new_form" >>,
                                  << "delete_form", "new_form" >> }
        /\ (cleanup'[k] # cleanup[k] /\ cleanup'[k] # << >>)
            => /\ s_pc[k] \in CleanupSteps
               /\ cleanup'[k][Len(cleanup'[k])].step = s_pc[k]
        /\ (/\ s_pc[k] = "log_expense" /\ s_pc'[k] # s_pc[k]
            /\ result[k] # None /\ ~ result[k][1].success)
            => s_pc'[k] = "followup_retry"
        /\ (s_pc[k] = "epoch" /\ s_pc'[k] = "followup_invalid") => UNCHANGED ledgerVars
        /\ (s_pc[k] \in { "followup_retry", "followup_invalid" })
            => /\ cleanup'[k] = << >>
               /\ s_pc'[k] \in { s_pc[k], "none", "followup_error" }
               /\ (s_pc'[k] = "none") =
                    (submit_reply'[k] = IF s_pc[k] = "followup_retry" THEN "try_again"
                                        ELSE "invalid_amount")
        /\ (submit_reply'[k] \in { "try_again", "invalid_amount" }) => cleanup'[k] = << >>
        /\ (s_pc[k] = "followup_error")
            => /\ s_pc'[k] \in { s_pc[k], "none" }
               /\ cleanup'[k] = cleanup[k]
               /\ submit_reply'[k] \in { submit_reply[k], "unexpected_error" }
      ]_vars

\* an entry was logged on both sides and the three clean-up steps ran, the
\* deletion of the category form failing
C38_Witness ==
    /\ submit_reply[1] = "logged"
    /\ result[1] # None
    /\ result[1][1].success
    /\ cleanup[1] = << [step |-> "delete_command", done |-> TRUE],
                    [step |-> "delete_form", done |-> FALSE],
                    [step |-> "new_form", done |-> TRUE] >>


\* the response carries an extracted object: status 200, success true and a
\* data.json that is not empty
GoodScrape(answer) ==
    /\ answer.kind = "response"
    /\ answer.status = 200
    /\ answer.body.kind = "object"
    /\ answer.body.success = Json("true")
    /\ answer.body.data.kind = "dict"
    /\ answer.body.data.json \notin { Json("absent"), Json("null"), JsonDict({ }) }

\* C39: fetch_epoch_data and fetch_token_data never raise: they return the
\* extracted JSON object only when the HTTP status is 200, the response's
\* success flag is true and data.json is non-empty, and return an empty dict
\* for every other outcome, a transport exception and a malformed body
\* included.
C39_FetchNeverRaises ==
    (/\ src_call # None
     /\ src_call[1].source \in { "fetch_epoch_data", "fetch_token_data" }
     /\ src_result # None)
        => /\ ~ src_result[1].raised
           /\ src_result[1].value =
                 IF GoodScrape(src_call[1].answer)
                 THEN src_call[1].answer.body.data.json
                 ELSE JsonDict({ })

\* a 200 response whose success flag is true and whose 'data' is null: the
\* AttributeError is caught and the call returns {}
C39_Witness ==
    /\ src_call # None
    /\ src_call[1].source = "fetch_epoch_data"
    /\ src_call[1].answer.kind = "response"
    /\ src_call[1].answer.status = 200
    /\ src_call[1].answer.body.success = Json("true")
    /\ src_call[1].answer.body.data.kind = "null"
    /\ src_result = Some([raised |-> FALSE, value |-> JsonDict({ }),
                          printed |-> << "Error making request" >>])

=============================================================================
